---------------------------- MODULE Spec2Model ----------------------------
(***************************************************************************)
(* A model of libuvc's device core (src/device.c): device enumeration and  *)
(* reference counting, uvc_open / uvc_close, the VideoControl and          *)
(* VideoStreaming descriptor parsers, and the status interrupt transfer    *)
(* with its completion callback.                                           *)
(*                                                                         *)
(* Two contexts run: the controlling context, which calls the public API   *)
(* one call at a time, and the USB event context, which runs               *)
(* _uvc_status_callback when a status transfer completes.                  *)
(***************************************************************************)
EXTENDS Integers, Sequences, FiniteSets, TLC

(***************************************************************************)
(* Bounds of the model.                                                    *)
(***************************************************************************)
MaxDevs == 2        \* uvc_device_t objects alive at once
MaxHandles == 1     \* uvc_device_handle_t objects opened
MaxRefs == 2        \* references the caller holds at once (lists and own)
MaxPkts == 3        \* status transfer completions per handle

(***************************************************************************)
(* Error codes (uvc_error_t); libusb's codes are cast to them unchanged.   *)
(***************************************************************************)
UVC_SUCCESS == "UVC_SUCCESS"
UVC_ERROR_IO == "UVC_ERROR_IO"
UVC_ERROR_ACCESS == "UVC_ERROR_ACCESS"
UVC_ERROR_NO_DEVICE == "UVC_ERROR_NO_DEVICE"
UVC_ERROR_BUSY == "UVC_ERROR_BUSY"
UVC_ERROR_NO_MEM == "UVC_ERROR_NO_MEM"
UVC_ERROR_NOT_SUPPORTED == "UVC_ERROR_NOT_SUPPORTED"
UVC_ERROR_INVALID_DEVICE == "UVC_ERROR_INVALID_DEVICE"

NULL == "NULL"

\* A pointer to a structure: NullPtr, or Ptr(x) pointing at x.
NullPtr == <<>>
Ptr(x) == <<x>>
Deref(p) == p[1]

(***************************************************************************)
(* Descriptor codes used by the parsers.                                   *)
(***************************************************************************)
CS_INTERFACE == 36
UVC_VC_HEADER == 1
UVC_VC_INPUT_TERMINAL == 2
UVC_VC_OUTPUT_TERMINAL == 3
UVC_VC_SELECTOR_UNIT == 4
UVC_VC_PROCESSING_UNIT == 5
UVC_VC_EXTENSION_UNIT == 6
UVC_VS_INPUT_HEADER == 1
UVC_VS_FORMAT_UNCOMPRESSED == 4
UVC_VS_FRAME_UNCOMPRESSED == 5
UVC_ITT_CAMERA == 513          \* 0x0201
CC_VIDEO == 14
SC_VIDEOCONTROL == 1
SC_VIDEOSTREAMING == 2

(***************************************************************************)
(* Byte access.  block[i] of the C code is Byte(blk, i), blk being the     *)
(* buffer from the block's first byte to the end of the extra bytes.       *)
(***************************************************************************)
OOB == 0 - 1

Byte(blk, i) == IF i >= 0 /\ i < Len(blk) THEN blk[i + 1] ELSE OOB

SW_TO_SHORT(blk, i) == Byte(blk, i) + 256 * Byte(blk, i + 1)

DW_TO_INT(blk, i) ==
    Byte(blk, i) + 256 * Byte(blk, i + 1) + 65536 * Byte(blk, i + 2)
        + 16777216 * Byte(blk, i + 3)

Drop(s, n) == IF n >= Len(s) THEN <<>> ELSE SubSeq(s, n + 1, Len(s))

\* A uint64_t as its 8 bytes, least significant first.
Zero64 == <<0, 0, 0, 0, 0, 0, 0, 0>>

\* b + (w << 8) on a uint64_t: the top byte is shifted out.
ShiftIn(w, b) == <<b>> \o SubSeq(w, 1, 7)

\* The loop running upwards: for (k = lo; k <= i; ++k)
RECURSIVE AccControls_forward(_, _, _, _)
AccControls_forward(blk, i, lo, bm) ==
    IF i < lo THEN bm
    ELSE AccControls_forward(blk, i, lo + 1, ShiftIn(bm, Byte(blk, lo)))

\* for (i = hi; i >= lo; --i) bm = block[i] + (bm << 8);
RECURSIVE AccControls(_, _, _, _)
AccControls(blk, i, lo, bm) ==
    IF i < lo THEN bm
    ELSE AccControls(blk, i - 1, lo, ShiftIn(bm, Byte(blk, i)))

(***************************************************************************)
(* Outcomes that are not a uvc_error_t the code chose: the value of a      *)
(* function that ran off a bare "return;", a dereference of a null or      *)
(* out-of-range pointer, and a loop that never ends.                       *)
(***************************************************************************)
INDETERMINATE == "INDETERMINATE"
SIGSEGV == "SIGSEGV"
UB_OOB == "UB_OOB"
HANG == "HANG"

MaxWalk == 12       \* blocks one descriptor walk visits before it is cut

(***************************************************************************)
(* uvc_device_info_t as calloc leaves it.                                  *)
(***************************************************************************)
EmptyInfo ==
    [ctrl_if |-> [bcdUVC |-> 0, bEndpointAddress |-> 0,
                  input_term_descs |-> <<>>,
                  processing_unit_descs |-> <<>>,
                  extension_unit_descs |-> <<>>],
     stream_ifs |-> <<>>]

Out(r, x) == [ret |-> r, val |-> x]

(***************************************************************************)
(* VideoStreaming blocks.                                                  *)
(***************************************************************************)
uvc_parse_vs_input_header(sif, blk) ==
    {Out(UVC_SUCCESS,
         [sif EXCEPT !.bEndpointAddress =
                         (Byte(blk, 6) % 16) + 128 * (Byte(blk, 6) \div 128),
                     !.bTerminalLink = Byte(blk, 8)])}

uvc_parse_vs_format_uncompressed(sif, blk) ==
    LET format == [parent |-> sif.bInterfaceNumber,
                   bDescriptorSubtype |-> Byte(blk, 2),
                   bFormatIndex |-> Byte(blk, 3),
                   guidFormat |-> [k \in 1..16 |-> Byte(blk, 4 + k)],
                   bBitsPerPixel |-> Byte(blk, 21),
                   bDefaultFrameIndex |-> Byte(blk, 22),
                   bAspectRatioX |-> Byte(blk, 23),
                   bAspectRatioY |-> Byte(blk, 24),
                   bmInterlaceFlags |-> Byte(blk, 25),
                   bCopyProtect |-> Byte(blk, 26),
                   frame_descs |-> <<>>]
    IN {Out(UVC_SUCCESS,
            [sif EXCEPT !.format_descs = Append(@, format)])}

\* The frame parser reading the continuous triple whatever block[25] is
uvc_parse_vs_frame_uncompressed_both(sif, blk) ==
    IF sif.format_descs = <<>>
    THEN {Out(SIGSEGV, sif)}
    ELSE
      LET last == Len(sif.format_descs)
          n == Byte(blk, 25)
          frame == [parent |-> sif.format_descs[last].bFormatIndex,
                    bDescriptorSubtype |-> Byte(blk, 2),
                    bFrameIndex |-> Byte(blk, 3),
                    bmCapabilities |-> Byte(blk, 4),
                    wWidth |-> Byte(blk, 5) + 256 * Byte(blk, 6),
                    wHeight |-> Byte(blk, 7) + 256 * Byte(blk, 8),
                    dwMinBitRate |-> DW_TO_INT(blk, 9),
                    dwMaxBitRate |-> DW_TO_INT(blk, 13),
                    dwMaxVideoFrameBufferSize |-> DW_TO_INT(blk, 17),
                    dwDefaultFrameInterval |-> DW_TO_INT(blk, 21),
                    dwMinFrameInterval |-> DW_TO_INT(blk, 26),
                    dwMaxFrameInterval |-> DW_TO_INT(blk, 30),
                    dwFrameIntervalStep |-> DW_TO_INT(blk, 34),
                    intervals |->
                       IF n = 0 THEN NullPtr
                       ELSE [i \in 1..(n + 1) |->
                               IF i <= n THEN DW_TO_INT(blk, 26 + 4 * (i - 1))
                               ELSE 0]]
      IN {Out(UVC_SUCCESS,
              [sif EXCEPT !.format_descs[last].frame_descs = Append(@, frame)])}

\* The frame parser with format = stream_if->format_descs, the first format
uvc_parse_vs_frame_uncompressed_first_format(sif, blk) ==
    IF sif.format_descs = <<>>
    THEN {Out(SIGSEGV, sif)}
    ELSE
      LET n == Byte(blk, 25)
          frame == [parent |-> sif.format_descs[1].bFormatIndex,
                    bDescriptorSubtype |-> Byte(blk, 2),
                    bFrameIndex |-> Byte(blk, 3),
                    bmCapabilities |-> Byte(blk, 4),
                    wWidth |-> Byte(blk, 5) + 256 * Byte(blk, 6),
                    wHeight |-> Byte(blk, 7) + 256 * Byte(blk, 8),
                    dwMinBitRate |-> DW_TO_INT(blk, 9),
                    dwMaxBitRate |-> DW_TO_INT(blk, 13),
                    dwMaxVideoFrameBufferSize |-> DW_TO_INT(blk, 17),
                    dwDefaultFrameInterval |-> DW_TO_INT(blk, 21),
                    dwMinFrameInterval |->
                       IF n = 0 THEN DW_TO_INT(blk, 26) ELSE 0,
                    dwMaxFrameInterval |->
                       IF n = 0 THEN DW_TO_INT(blk, 30) ELSE 0,
                    dwFrameIntervalStep |->
                       IF n = 0 THEN DW_TO_INT(blk, 34) ELSE 0,
                    intervals |->
                       IF n = 0 THEN NullPtr
                       ELSE [i \in 1..(n + 1) |->
                               IF i <= n THEN DW_TO_INT(blk, 26 + 4 * (i - 1))
                               ELSE 0]]
      IN {Out(UVC_SUCCESS,
              [sif EXCEPT !.format_descs[1].frame_descs = Append(@, frame)])}

uvc_parse_vs_frame_uncompressed(sif, blk) ==
    IF sif.format_descs = <<>>
    THEN {Out(SIGSEGV, sif)}      \* stream_if->format_descs->prev on NULL
    ELSE
      LET last == Len(sif.format_descs)
          n == Byte(blk, 25)
          base == [parent |-> sif.format_descs[last].bFormatIndex,
                   bDescriptorSubtype |-> Byte(blk, 2),
                   bFrameIndex |-> Byte(blk, 3),
                   bmCapabilities |-> Byte(blk, 4),
                   wWidth |-> Byte(blk, 5) + 256 * Byte(blk, 6),
                   wHeight |-> Byte(blk, 7) + 256 * Byte(blk, 8),
                   dwMinBitRate |-> DW_TO_INT(blk, 9),
                   dwMaxBitRate |-> DW_TO_INT(blk, 13),
                   dwMaxVideoFrameBufferSize |-> DW_TO_INT(blk, 17),
                   dwDefaultFrameInterval |-> DW_TO_INT(blk, 21),
                   dwMinFrameInterval |-> 0,
                   dwMaxFrameInterval |-> 0,
                   dwFrameIntervalStep |-> 0,
                   intervals |-> NullPtr]
          frame == IF n = 0
                   THEN [base EXCEPT
                           !.dwMinFrameInterval = DW_TO_INT(blk, 26),
                           !.dwMaxFrameInterval = DW_TO_INT(blk, 30),
                           !.dwFrameIntervalStep = DW_TO_INT(blk, 34)]
                   ELSE [base EXCEPT
                           !.intervals =
                              [i \in 1..(n + 1) |->
                                  IF i <= n THEN DW_TO_INT(blk, 26 + 4 * (i - 1))
                                  ELSE 0]]
      IN {Out(UVC_SUCCESS,
              [sif EXCEPT !.format_descs[last].frame_descs = Append(@, frame)])}

uvc_parse_vs(sif, blk) ==
    LET descriptor_subtype == Byte(blk, 2)
    IN CASE descriptor_subtype = UVC_VS_INPUT_HEADER ->
                uvc_parse_vs_input_header(sif, blk)
         [] descriptor_subtype = UVC_VS_FORMAT_UNCOMPRESSED ->
                uvc_parse_vs_format_uncompressed(sif, blk)
         [] descriptor_subtype = UVC_VS_FRAME_UNCOMPRESSED ->
                uvc_parse_vs_frame_uncompressed(sif, blk)
         [] OTHER -> {Out(UVC_SUCCESS, sif)}

(***************************************************************************)
(* The descriptor walk.  buffer_left is a size_t: a value below 0 here     *)
(* stands for that value plus 2^64, which the loop test sees as >= 3.      *)
(***************************************************************************)
LeftAtLeast3(buffer_left) == buffer_left >= 3 \/ buffer_left < 0

RECURSIVE WalkVS(_, _, _, _)
WalkVS(buffer, buffer_left, sif, fuel) ==
    IF ~LeftAtLeast3(buffer_left) THEN {Out(UVC_SUCCESS, sif)}
    ELSE IF Len(buffer) < 3 THEN {Out(UB_OOB, sif)}
    ELSE IF fuel = 0 THEN {Out(HANG, sif)}
    ELSE LET block_size == Byte(buffer, 0)
         IN UNION {IF o.ret # UVC_SUCCESS THEN {o}
                   ELSE WalkVS(Drop(buffer, block_size),
                               buffer_left - block_size, o.val, fuel - 1)
                   : o \in uvc_parse_vs(sif, buffer)}

uvc_scan_streaming(config, info, interface_idx) ==
    IF interface_idx + 1 > Len(config.interface) \/ interface_idx < 0
    THEN {Out(UB_OOB, info)}      \* config->interface[interface_idx]
    ELSE
      LET if_desc == config.interface[interface_idx + 1].altsetting[1]
          stream_if == [parent |-> "info",
                        bInterfaceNumber |-> if_desc.bInterfaceNumber,
                        bEndpointAddress |-> 0,
                        bTerminalLink |-> 0,
                        format_descs |-> <<>>]
      IN {Out(o.ret, [info EXCEPT !.stream_ifs = Append(@, o.val)])
          : o \in WalkVS(if_desc.extra, Len(if_desc.extra), stream_if, MaxWalk)}

(***************************************************************************)
(* VideoControl blocks.                                                    *)
(***************************************************************************)
RECURSIVE ScanStreamingList(_, _, _, _, _)
\* for (i = 12; i < block_size; ++i) scan_streaming(block[i]), break on error
ScanStreamingList(config, info, blk, i, block_size) ==
    IF i >= block_size THEN {Out(UVC_SUCCESS, info)}
    ELSE UNION {IF o.ret # UVC_SUCCESS THEN {o}
                ELSE ScanStreamingList(config, o.val, blk, i + 1, block_size)
                : o \in uvc_scan_streaming(config, info, Byte(blk, i))}

uvc_parse_vc_header(config, info, blk, block_size) ==
    LET bcd == SW_TO_SHORT(blk, 3)
        info1 == [info EXCEPT !.ctrl_if.bcdUVC = bcd]
    IN IF bcd \notin {256, 266, 272}        \* 0x0100, 0x010a, 0x0110
       THEN {Out(UVC_ERROR_NOT_SUPPORTED, info1)}
       ELSE ScanStreamingList(config, info1, blk, 12, block_size)

uvc_parse_vc_input_terminal(info, blk) ==
    IF SW_TO_SHORT(blk, 4) # UVC_ITT_CAMERA
    THEN {Out(r, info) : r \in {UVC_SUCCESS, INDETERMINATE}}   \* "return;"
    ELSE
      LET term == [bTerminalID |-> Byte(blk, 3),
                   wTerminalType |-> SW_TO_SHORT(blk, 4),
                   wObjectiveFocalLengthMin |-> SW_TO_SHORT(blk, 8),
                   wObjectiveFocalLengthMax |-> SW_TO_SHORT(blk, 10),
                   wOcularFocalLength |-> SW_TO_SHORT(blk, 12),
                   bmControls |->
                       AccControls(blk, 14 + Byte(blk, 14), 15, Zero64)]
      IN {Out(UVC_SUCCESS,
              [info EXCEPT !.ctrl_if.input_term_descs = Append(@, term)])}

uvc_parse_vc_processing_unit(info, blk) ==
    LET unit == [bUnitID |-> Byte(blk, 3),
                 bSourceID |-> Byte(blk, 4),
                 bmControls |-> AccControls(blk, 7 + Byte(blk, 7), 8, Zero64)]
    IN {Out(UVC_SUCCESS,
            [info EXCEPT !.ctrl_if.processing_unit_descs = Append(@, unit)])}

uvc_parse_vc_extension_unit(info, blk) ==
    LET num_in_pins == Byte(blk, 21)
        size_of_controls == Byte(blk, 22 + num_in_pins)
        start_of_controls == 23 + num_in_pins
        unit == [bUnitID |-> Byte(blk, 3),
                 guidExtensionCode |-> [k \in 1..16 |-> Byte(blk, 3 + k)],
                 bmControls |->
                     AccControls(blk, start_of_controls + size_of_controls - 1,
                                 start_of_controls, Zero64)]
    IN {Out(UVC_SUCCESS,
            [info EXCEPT !.ctrl_if.extension_unit_descs = Append(@, unit)])}

uvc_parse_vc(config, info, blk, block_size) ==
    IF Byte(blk, 1) # CS_INTERFACE THEN {Out(UVC_SUCCESS, info)}
    ELSE LET descriptor_subtype == Byte(blk, 2)
         IN CASE descriptor_subtype = UVC_VC_HEADER ->
                     uvc_parse_vc_header(config, info, blk, block_size)
              [] descriptor_subtype = UVC_VC_INPUT_TERMINAL ->
                     uvc_parse_vc_input_terminal(info, blk)
              [] descriptor_subtype = UVC_VC_OUTPUT_TERMINAL ->
                     {Out(UVC_SUCCESS, info)}
              [] descriptor_subtype = UVC_VC_SELECTOR_UNIT ->
                     {Out(UVC_SUCCESS, info)}
              [] descriptor_subtype = UVC_VC_PROCESSING_UNIT ->
                     uvc_parse_vc_processing_unit(info, blk)
              [] descriptor_subtype = UVC_VC_EXTENSION_UNIT ->
                     uvc_parse_vc_extension_unit(info, blk)
              [] OTHER -> {Out(UVC_ERROR_INVALID_DEVICE, info)}

RECURSIVE WalkVC(_, _, _, _, _)
WalkVC(config, buffer, buffer_left, info, fuel) ==
    IF ~LeftAtLeast3(buffer_left) THEN {Out(UVC_SUCCESS, info)}
    ELSE IF Len(buffer) < 3 THEN {Out(UB_OOB, info)}
    ELSE IF fuel = 0 THEN {Out(HANG, info)}
    ELSE LET block_size == Byte(buffer, 0)
         IN UNION {IF o.ret # UVC_SUCCESS THEN {o}
                   ELSE WalkVC(config, Drop(buffer, block_size),
                               buffer_left - block_size, o.val, fuel - 1)
                   : o \in uvc_parse_vc(config, info, buffer, block_size)}

\* Index (from 1) of the first interface whose altsetting 0 is Video/Control,
\* or 0 when there is none.
RECURSIVE FindControlIf(_, _)
FindControlIf(config, interface_idx) ==
    IF interface_idx > Len(config.interface) THEN 0
    ELSE LET if_desc == config.interface[interface_idx].altsetting[1]
         IN IF if_desc.bInterfaceClass = CC_VIDEO
               /\ if_desc.bInterfaceSubClass = SC_VIDEOCONTROL
            THEN interface_idx
            ELSE FindControlIf(config, interface_idx + 1)

uvc_scan_control(config, info) ==
    LET k == FindControlIf(config, 1)
    IN IF k = 0 THEN {Out(UVC_ERROR_INVALID_DEVICE, info)}
       ELSE LET if_desc == config.interface[k].altsetting[1]
                info1 == IF if_desc.bNumEndpoints # 0
                         THEN [info EXCEPT !.ctrl_if.bEndpointAddress =
                                   if_desc.endpoint[1].bEndpointAddress]
                         ELSE info
            IN WalkVC(config, if_desc.extra, Len(if_desc.extra), info1, MaxWalk)

(***************************************************************************)
(* The USB bus the adapter reports: descriptors as the devices send them.  *)
(***************************************************************************)
VcHeader(bcdLo, bcdHi, ifs) ==
    <<12 + Len(ifs), CS_INTERFACE, UVC_VC_HEADER, bcdLo, bcdHi,
      0, 0, 0, 0, 0, 0, Len(ifs)>> \o ifs

VcInputTerminal(id, typeLo, typeHi, controls) ==
    <<15 + Len(controls), CS_INTERFACE, UVC_VC_INPUT_TERMINAL, id,
      typeLo, typeHi, 0, 0, 0, 0, 0, 0, 0, 0, Len(controls)>> \o controls

VcProcessingUnit(id, src, controls) ==
    <<9 + Len(controls), CS_INTERFACE, UVC_VC_PROCESSING_UNIT, id, src,
      0, 0, Len(controls)>> \o controls \o <<0>>

\* pins: baSourceID, one byte per input pin
VcExtensionUnit(id, pins, controls) ==
    <<24 + Len(pins) + Len(controls), CS_INTERFACE, UVC_VC_EXTENSION_UNIT, id>>
        \o [k \in 1..16 |-> 100 + k] \o <<8 * Len(controls), Len(pins)>> \o pins
        \o <<Len(controls)>> \o controls \o <<0>>

VsInputHeader(ep, link) ==
    <<13, CS_INTERFACE, UVC_VS_INPUT_HEADER, 1, 0, 0, ep, 0, link, 0, 0, 0, 0>>

VsFormatUncompressed(idx) ==
    <<27, CS_INTERFACE, UVC_VS_FORMAT_UNCOMPRESSED, idx, 1>>
        \o [k \in 1..16 |-> k] \o <<16, 1, 0, 0, 0, 0>>

VsFrameContinuous(idx) ==
    <<38, CS_INTERFACE, UVC_VS_FRAME_UNCOMPRESSED, idx, 0, 128, 2, 224, 1>>
        \o [k \in 1..16 |-> 0] \o <<0>>
        \o <<21, 22, 5, 0>> \o <<128, 132, 30, 0>> \o <<0, 0, 0, 0>>

\* A frame with a table of intervals, each given as its 4 bytes
VsFrameDiscrete(idx, intervals) ==
    <<26 + Len(intervals), CS_INTERFACE, UVC_VS_FRAME_UNCOMPRESSED, idx,
      0, 64, 1, 240, 0>>
        \o [k \in 1..16 |-> 0] \o <<Len(intervals) \div 4>> \o intervals

AltSetting(cls, sub, num, eps, extra) ==
    [bInterfaceClass |-> cls, bInterfaceSubClass |-> sub,
     bInterfaceNumber |-> num, bNumEndpoints |-> Len(eps),
     endpoint |-> [k \in 1..Len(eps) |-> [bEndpointAddress |-> eps[k]]],
     extra |-> extra]

StreamingIf ==
    [altsetting |->
        <<AltSetting(CC_VIDEO, SC_VIDEOSTREAMING, 1, <<>>,
                     VsInputHeader(129, 2) \o VsFormatUncompressed(1)
                         \o VsFrameContinuous(1)),
          AltSetting(CC_VIDEO, SC_VIDEOSTREAMING, 1, <<129>>, <<>>)>>]

\* A camera with a status interrupt endpoint (0x83), UVC 1.10, camera
\* terminals 1 and 2 and processing units 2 and 3.
CamA ==
    [idVendor |-> 1133, idProduct |-> 2085, serial |-> "AAA",
     config |->
        [interface |->
            <<[altsetting |->
                 <<AltSetting(CC_VIDEO, SC_VIDEOCONTROL, 0, <<131>>,
                       VcHeader(16, 1, <<1>>)
                           \o VcInputTerminal(1, 1, 2, <<1, 2>>)
                           \o VcInputTerminal(2, 1, 2, <<>>)
                           \o VcProcessingUnit(2, 1, <<3>>)
                           \o VcProcessingUnit(3, 2, <<>>))>>],
              StreamingIf>>]]

\* A camera without a status endpoint, UVC 1.00.
CamB ==
    [idVendor |-> 1449, idProduct |-> 1, serial |-> "BBB",
     config |->
        [interface |->
            <<[altsetting |->
                 <<AltSetting(CC_VIDEO, SC_VIDEOCONTROL, 0, <<>>,
                       VcHeader(0, 1, <<1>>)
                           \o VcInputTerminal(1, 1, 2, <<4>>))>>],
              StreamingIf>>]]

\* A device that is no camera.
Hub ==
    [idVendor |-> 7531, idProduct |-> 2, serial |-> NULL,
     config |->
        [interface |-> <<[altsetting |-> <<AltSetting(9, 0, 0, <<129>>, <<>>)>>]>>]]

\* A device whose only Video/Streaming altsetting is the second altsetting of
\* its second interface, and which has no VideoControl interface.
AltCam ==
    [idVendor |-> 1133, idProduct |-> 1, serial |-> "AAA",
     config |->
        [interface |->
            <<[altsetting |-> <<AltSetting(1, 1, 0, <<>>, <<>>)>>],
              [altsetting |->
                 <<AltSetting(255, 0, 1, <<>>, <<>>),
                   AltSetting(CC_VIDEO, SC_VIDEOSTREAMING, 1, <<129>>, <<>>)>>]>>]]

\* A device with a VideoControl interface and no VideoStreaming interface.
CtlOnly ==
    [idVendor |-> 1449, idProduct |-> 7, serial |-> "CCC",
     config |->
        [interface |->
            <<[altsetting |->
                 <<AltSetting(CC_VIDEO, SC_VIDEOCONTROL, 0, <<>>,
                       VcHeader(0, 1, <<>>))>>]>>]]

(***************************************************************************)
(* Devices given by their descriptor chains: the blocks of the             *)
(* VideoControl interface's extra bytes and those of the VideoStreaming    *)
(* interface's.                                                            *)
(***************************************************************************)
MaxBlocks == 2      \* blocks drawn for one descriptor chain

RECURSIVE Flatten(_)
Flatten(blocks) ==
    IF blocks = <<>> THEN <<>> ELSE Head(blocks) \o Flatten(Tail(blocks))

ChainDevice(vc, vs) ==
    [idVendor |-> 1133, idProduct |-> 2085, serial |-> NULL,
     config |->
        [interface |->
            <<[altsetting |->
                 <<AltSetting(CC_VIDEO, SC_VIDEOCONTROL, 0, <<>>, Flatten(vc))>>],
              [altsetting |->
                 <<AltSetting(CC_VIDEO, SC_VIDEOSTREAMING, 1, <<>>, Flatten(vs)),
                   AltSetting(CC_VIDEO, SC_VIDEOSTREAMING, 1, <<129>>, <<>>)>>]>>]]

\* The blocks a VideoControl chain is drawn from
VcBlocks ==
    {VcHeader(16, 1, <<1>>),                    \* UVC 1.10, streaming on 1
     VcHeader(0, 1, <<>>),                      \* UVC 1.00
     VcHeader(10, 1, <<>>),                     \* UVC 1.0a
     VcHeader(80, 1, <<1>>),                    \* bcdUVC 0x0150
     VcInputTerminal(1, 1, 2, <<1, 2>>),        \* camera
     VcInputTerminal(4, 1, 2, <<1, 2, 3, 4, 5, 6, 7, 8, 9>>),
     VcInputTerminal(2, 1, 1, <<5>>),           \* wTerminalType 0x0101
     VcProcessingUnit(2, 1, <<3, 0, 64>>),
     VcProcessingUnit(3, 2, <<>>),
     VcExtensionUnit(5, <<2>>, <<7, 8>>),
     <<9, CS_INTERFACE, UVC_VC_OUTPUT_TERMINAL, 6, 1, 1, 0, 5, 0>>,
     <<3, CS_INTERFACE, 9>>,                    \* a subtype the switch lacks
     <<7, 5, 131, 3, 8, 0, 10>>,                \* an endpoint descriptor
     <<0, CS_INTERFACE, UVC_VC_OUTPUT_TERMINAL>>,       \* size byte 0
     <<40, CS_INTERFACE, UVC_VC_OUTPUT_TERMINAL, 7>>,   \* size byte 40 of 4
     <<2, CS_INTERFACE>>}                       \* two bytes

\* The blocks a VideoStreaming chain is drawn from
VsBlocks ==
    {VsInputHeader(129, 2),
     VsFormatUncompressed(2),
     VsFrameContinuous(1),
     VsFrameDiscrete(2, <<21, 22, 5, 0, 42, 44, 10, 0>>),
     VsFrameDiscrete(3, <<128, 132, 30, 0>>),
     <<4, CS_INTERFACE, 6, 1>>,                 \* a subtype the switch lacks
     <<0, CS_INTERFACE, 6>>,                    \* size byte 0
     <<40, CS_INTERFACE, 6, 7>>}                \* size byte 40 of 4

\* The sequences of at most n elements of S
RECURSIVE SeqsUpTo(_, _)
SeqsUpTo(S, n) ==
    IF n = 0 THEN {<<>>}
    ELSE LET shorter == SeqsUpTo(S, n - 1)
         IN shorter \cup {Append(q, x) : q \in shorter, x \in S}

DefaultVc == <<VcHeader(16, 1, <<1>>), VcInputTerminal(1, 1, 2, <<1, 2>>)>>
DefaultVs ==
    <<VsInputHeader(129, 2), VsFormatUncompressed(1), VsFrameContinuous(1)>>

\* A bus entry <<vc, vs>> stands for the device with these two chains: every
\* VideoControl chain with the usual streaming interface, and every
\* VideoStreaming chain, bare or after a header and a format, with the usual
\* control interface.
ChainNames ==
    {<<vc, DefaultVs>> : vc \in SeqsUpTo(VcBlocks, MaxBlocks)}
    \cup {<<DefaultVc, pre \o vs>> :
             pre \in {<<>>, <<VsInputHeader(129, 2), VsFormatUncompressed(1)>>},
             vs \in SeqsUpTo(VsBlocks, MaxBlocks)}

\* The devices by name, and what scanning each one's descriptors gives.
DeviceOf(name) ==
    IF Len(name) = 2 THEN ChainDevice(name[1], name[2]) ELSE
    CASE name = "CamA" -> CamA
      [] name = "CamB" -> CamB
      [] name = "Hub" -> Hub
      [] name = "AltCam" -> AltCam
      [] name = "CtlOnly" -> CtlOnly

DeviceNames == {"CamA", "CamB", "Hub", "AltCam", "CtlOnly"}

\* uvc_scan_control on each device's configuration 0
ScanOf ==
    [name \in DeviceNames |->
        uvc_scan_control(DeviceOf(name).config, EmptyInfo)]

Scan(name) ==
    IF Len(name) = 2 THEN uvc_scan_control(DeviceOf(name).config, EmptyInfo)
    ELSE ScanOf[name]

(***************************************************************************)
(* State.                                                                  *)
(***************************************************************************)
VARIABLES
    bus,            \* the USB devices the adapter enumerates, in order
    devs,           \* uvc_device_t objects: [st, ref, usb_dev] per slot
    usb_ref,        \* libusb's reference count of each USB device
    via,            \* USB references taken through each uvc_device_t
    live,           \* objects allocated and not freed, per kind
    lists,          \* device lists handed out and not yet freed
    userRefs,       \* references the caller holds on each uvc_device_t
    handles,        \* uvc_device_handle_t objects per slot
    open_devices,   \* ctx->open_devices
    ctl,            \* where the controlling context is
    xfer,           \* each handle's status transfer, as libusb sees it
    wire,           \* status packets completed on each handle's endpoint
    calls,          \* calls made through each handle's status_cb
    closeLog,       \* steps uvc_close has taken on each handle
    lastOp,         \* the last API call the controlling context finished
    crashed,        \* the process died
    uaf,            \* freed memory was read or written
    preOpen         \* what the last successful uvc_open found, while nothing
                    \* but the close of its handle has run since

vars == <<bus, devs, usb_ref, via, live, lists, userRefs, handles, open_devices,
          ctl, xfer, wire, calls, closeLog, lastOp, crashed, uaf, preOpen>>

DevIds == 1..MaxDevs
HandleIds == 1..MaxHandles

\* A slot holding no uvc_device_t: never allocated, or freed
NoDev == [st |-> "free", ref |-> 0, usb_dev |-> 0]

\* What the controlling context's calls read and write, passed through them.
UsbDevs == 1..Len(bus)
Bus(W, usb_dev) == DeviceOf(W.bus[usb_dev])

World ==
    [bus |-> bus, devs |-> devs, usb_ref |-> usb_ref, via |-> via, live |-> live,
     handles |-> handles, open_devices |-> open_devices, xfer |-> xfer,
     closeLog |-> closeLog]

Install(W) ==
    /\ devs' = W.devs
    /\ usb_ref' = W.usb_ref
    /\ via' = W.via
    /\ live' = W.live
    /\ handles' = W.handles
    /\ open_devices' = W.open_devices
    /\ xfer' = W.xfer
    /\ closeLog' = W.closeLog

Alloc(W, kind) == [W EXCEPT !.live[kind] = @ + 1]
Free(W, kind) == [W EXCEPT !.live[kind] = @ - 1]

(***************************************************************************)
(* Reference counting.                                                     *)
(***************************************************************************)
\* uvc_ref_device without its libusb_ref_device
uvc_ref_device_local_only(W, d) == [W EXCEPT !.devs[d].ref = @ + 1]

uvc_ref_device(W, d) ==
    [W EXCEPT !.devs[d].ref = @ + 1,
              !.usb_ref[W.devs[d].usb_dev] = @ + 1,
              !.via[d] = @ + 1]

\* uvc_unref_device freeing the device one reference early
uvc_unref_device_early(W, d) ==
    LET W1 == [W EXCEPT !.usb_ref[W.devs[d].usb_dev] = @ - 1,
                        !.via[d] = @ - 1,
                        !.devs[d].ref = @ - 1]
    IN IF W1.devs[d].ref <= 1
       THEN [W1 EXCEPT !.devs[d] = NoDev, !.live["dev"] = @ - 1]
       ELSE W1

uvc_unref_device(W, d) ==
    LET W1 == [W EXCEPT !.usb_ref[W.devs[d].usb_dev] = @ - 1,
                        !.via[d] = @ - 1,
                        !.devs[d].ref = @ - 1]
    IN IF W1.devs[d].ref = 0
       THEN Free([W1 EXCEPT !.devs[d] = NoDev], "dev")
       ELSE W1

(***************************************************************************)
(* uvc_get_device_list and uvc_free_device_list.                           *)
(***************************************************************************)
\* got_interface looking at each interface's first altsetting only
GotInterface_first_altsetting(config) ==
    \E interface_idx \in 1..Len(config.interface) :
        LET if_desc == config.interface[interface_idx].altsetting[1]
        IN /\ if_desc.bInterfaceClass = CC_VIDEO
           /\ if_desc.bInterfaceSubClass = SC_VIDEOSTREAMING

\* got_interface: some interface has some altsetting Video/Streaming
GotInterface(config) ==
    \E interface_idx \in 1..Len(config.interface) :
        \E altsetting_idx \in 1..Len(config.interface[interface_idx].altsetting) :
            LET if_desc == config.interface[interface_idx].altsetting[altsetting_idx]
            IN /\ if_desc.bInterfaceClass = CC_VIDEO
               /\ if_desc.bInterfaceSubClass = SC_VIDEOSTREAMING

FreeSlots(W) == {d \in DevIds : W.devs[d].st # "live"}

\* malloc of a uvc_device_t: ref = 0, then uvc_ref_device
NewDevice(W, usb_dev) ==
    LET d == CHOOSE x \in FreeSlots(W) : \A y \in FreeSlots(W) : x <= y
        W1 == Alloc([W EXCEPT !.devs[d] = [st |-> "live", ref |-> 0,
                                           usb_dev |-> usb_dev],
                              !.via[d] = 0], "dev")
    IN [W |-> uvc_ref_device(W1, d), d |-> d]

\* The while loop over usb_dev_list from index dev_idx on; cfgFail are the
\* devices whose libusb_get_config_descriptor fails.
RECURSIVE ListLoop(_, _, _, _)
ListLoop(W, list_internal, dev_idx, cfgFail) ==
    IF dev_idx > Len(W.bus) THEN [W |-> W, list |-> list_internal]
    ELSE IF dev_idx \in cfgFail \/ ~GotInterface(Bus(W, dev_idx).config)
    THEN ListLoop(W, list_internal, dev_idx + 1, cfgFail)
    ELSE LET n == NewDevice(W, dev_idx)
         IN ListLoop(n.W, Append(list_internal, n.d), dev_idx + 1, cfgFail)

\* What becomes of the call when libusb_get_device_list fails: the negative
\* count is stored in a size_t, so "num_usb_devices < 0" is never true, and
\* the loop runs over a usb_dev_list that was never set.  The process dies,
\* or the memory read happens to hold a NULL and the call gives an empty list.
UninitDeviceList(W) ==
    {[ret |-> SIGSEGV, W |-> W, list |-> <<>>],
     [ret |-> UVC_SUCCESS, W |-> Alloc(W, "list"), list |-> <<>>]}

\* enumOk: libusb_get_device_list succeeded
uvc_get_device_list(W, cfgFail, enumOk) ==
    IF ~enumOk THEN UninitDeviceList(W)
    ELSE LET r == ListLoop(Alloc(W, "list"), <<>>, 1, cfgFail)
         IN {[ret |-> UVC_SUCCESS, W |-> r.W, list |-> r.list]}

RECURSIVE UnrefAll(_, _, _)
UnrefAll(W, list, dev_idx) ==
    IF dev_idx > Len(list) THEN W
    ELSE UnrefAll(uvc_unref_device(W, list[dev_idx]), list, dev_idx + 1)

uvc_free_device_list(W, list, unref_devices) ==
    Free(IF unref_devices # 0 THEN UnrefAll(W, list, 1) ELSE W, "list")

(***************************************************************************)
(* uvc_get_device_descriptor and uvc_find_device.  env names the devices   *)
(* on which the adapter's calls fail during this call.                     *)
(***************************************************************************)
uvc_get_device_descriptor(W, usb_dev, env) ==
    IF usb_dev \in env.descFail
    THEN [ret |-> UVC_ERROR_IO, desc |-> NullPtr]
    ELSE [ret |-> UVC_SUCCESS,
          desc |-> Ptr([idVendor |-> Bus(W, usb_dev).idVendor,
                        idProduct |-> Bus(W, usb_dev).idProduct,
                        serialNumber |-> IF usb_dev \in env.openFail
                                         THEN NULL
                                         ELSE Bus(W, usb_dev).serial])]

\* The three criteria without the one on idProduct
Matches_ignoring_pid(desc, vid, pid, sn) ==
    /\ (vid = 0 \/ desc.idVendor = vid)
    /\ (sn = NULL \/ (desc.serialNumber # NULL /\ desc.serialNumber = sn))

Matches(desc, vid, pid, sn) ==
    /\ (vid = 0 \/ desc.idVendor = vid)
    /\ (pid = 0 \/ desc.idProduct = pid)
    /\ (sn = NULL \/ (desc.serialNumber # NULL /\ desc.serialNumber = sn))

\* The while loop: the index of the first matching entry, 0 when none
RECURSIVE FindLoop(_, _, _, _, _, _, _)
FindLoop(W, list, dev_idx, vid, pid, sn, env) ==
    IF dev_idx > Len(list) THEN 0
    ELSE LET r == uvc_get_device_descriptor(W, W.devs[list[dev_idx]].usb_dev, env)
         IN IF r.ret = UVC_SUCCESS /\ Matches(Deref(r.desc), vid, pid, sn)
            THEN dev_idx
            ELSE FindLoop(W, list, dev_idx + 1, vid, pid, sn, env)

\* From "dev_idx = 0" on, with the list g that uvc_get_device_list gave
FindIn(g, vid, pid, sn, env) ==
    LET found == FindLoop(g.W, g.list, 1, vid, pid, sn, env)
        W1 == IF found # 0 THEN uvc_ref_device(g.W, g.list[found]) ELSE g.W
        W2 == uvc_free_device_list(W1, g.list, 1)
    IN IF found # 0
       THEN [ret |-> UVC_SUCCESS, W |-> W2, dev |-> g.list[found]]
       ELSE [ret |-> UVC_ERROR_NO_DEVICE, W |-> W2, dev |-> 0]

uvc_find_device(W, vid, pid, sn, env) ==
    {IF g.ret # UVC_SUCCESS THEN [ret |-> g.ret, W |-> g.W, dev |-> 0]
     ELSE FindIn(g, vid, pid, sn, env)
     : g \in uvc_get_device_list(W, env.cfgFail, env.enumOk)}

(***************************************************************************)
(* uvc_open and what it calls.  in holds what the adapter and the          *)
(* allocator answer during this call.                                      *)
(***************************************************************************)
uvc_claim_ifs(in) ==
    LET r0 == IF in.kactive0 THEN in.detach0 ELSE UVC_SUCCESS
    IN IF in.kactive0 /\ r0 # UVC_SUCCESS
       THEN [ret |-> r0, claimed |-> {}]
       ELSE
         LET c0 == IF in.claim0 = UVC_SUCCESS THEN {0} ELSE {}
             r1 == IF in.kactive1 THEN in.detach1 ELSE in.claim0
         IN IF in.kactive1 /\ in.detach1 # UVC_SUCCESS
            THEN [ret |-> in.detach1, claimed |-> c0]
            ELSE IF r1 # UVC_SUCCESS
            THEN [ret |-> r1, claimed |-> c0]
            ELSE [ret |-> in.claim1,
                  claimed |-> c0 \cup (IF in.claim1 = UVC_SUCCESS
                                       THEN {1} ELSE {})]

uvc_release_ifs(devh) == [devh EXCEPT !.claimed = {}]

uvc_free_device_info(W) == Free(Free(W, "config"), "info")

uvc_get_device_info(W, usb_dev, in) ==
    IF ~in.info_alloc THEN {[ret |-> UVC_ERROR_NO_MEM, W |-> W, info |-> NullPtr]}
    ELSE IF ~in.cfg_ok
    THEN {[ret |-> UVC_ERROR_IO, W |-> Free(Alloc(W, "info"), "info"),
           info |-> NullPtr]}
    ELSE LET W1 == Alloc(Alloc(W, "info"), "config")
         IN {IF o.ret # UVC_SUCCESS
             THEN [ret |-> o.ret, W |-> uvc_free_device_info(W1), info |-> NullPtr]
             ELSE [ret |-> o.ret, W |-> W1, info |-> Ptr(o.val)]
             : o \in Scan(W.bus[usb_dev])}

uvc_free_devh(W, devh) ==
    LET W1 == IF devh.info # NullPtr THEN uvc_free_device_info(W) ELSE W
        W2 == IF devh.status_xfer # NULL THEN Free(W1, "xfer") ELSE W1
    IN Free(W2, "devh")

NoHandle ==
    [st |-> "unused", dev |-> 0, usb_devh |-> NULL, info |-> NullPtr,
     status_xfer |-> NULL, status_cb |-> NULL, streaming |-> FALSE,
     is_isight |-> FALSE, claimed |-> {}]

NoXfer ==
    [st |-> "none", pc |-> "none", status |-> NULL, pkt |-> <<>>,
     processed |-> FALSE, submits |-> 0]

\* The fail: label without its uvc_unref_device
OpenFail_no_unref(W, d, devh, ret) ==
    [ret |-> ret, W |-> uvc_free_devh(Free(W, "usbh"), uvc_release_ifs(devh))]

\* The fail: label of uvc_open
OpenFail(W, d, devh, ret) ==
    LET devh1 == uvc_release_ifs(devh)
        W1 == Free(W, "usbh")
        W2 == uvc_unref_device(W1, d)
    IN [ret |-> ret, W |-> uvc_free_devh(W2, devh1)]

\* uvc_open submitting the status transfer whatever the endpoint address
OpenStatus_always_submits(W, d, h, devh, in) ==
    IF ~in.xfer_alloc THEN OpenFail(W, d, devh, UVC_ERROR_NO_MEM)
    ELSE LET W1 == Alloc(W, "xfer")
             devh1 == [devh EXCEPT !.status_xfer = "xfer"]
         IN IF in.submit # UVC_SUCCESS
            THEN OpenFail(W1, d, devh1, in.submit)
            ELSE [ret |-> UVC_SUCCESS,
                  W |-> [W1 EXCEPT !.handles[h] = devh1,
                                   !.xfer[h] = [NoXfer EXCEPT !.st = "inflight"],
                                   !.open_devices = Append(@, h)]]

\* From "if (info->ctrl_if.bEndpointAddress)" to the return
OpenStatus(W, d, h, devh, in) ==
    IF Deref(devh.info).ctrl_if.bEndpointAddress = 0
    THEN [ret |-> UVC_SUCCESS,
          W |-> [W EXCEPT !.handles[h] = devh,
                          !.open_devices = Append(@, h)]]
    ELSE IF ~in.xfer_alloc THEN OpenFail(W, d, devh, UVC_ERROR_NO_MEM)
    ELSE LET W1 == Alloc(W, "xfer")
             devh1 == [devh EXCEPT !.status_xfer = "xfer"]
         IN IF in.submit # UVC_SUCCESS
            THEN OpenFail(W1, d, devh1, in.submit)
            ELSE [ret |-> UVC_SUCCESS,
                  W |-> [W1 EXCEPT !.handles[h] = devh1,
                                   !.xfer[h] = [NoXfer EXCEPT !.st = "inflight"],
                                   !.open_devices = Append(@, h)]]

uvc_open(W, d, h, in) ==
    IF in.usb_open # UVC_SUCCESS THEN {[ret |-> in.usb_open, W |-> W]}
    ELSE
      LET usb_dev == W.devs[d].usb_dev
          W1 == Alloc(uvc_ref_device(Alloc(W, "usbh"), d), "devh")
          devh == [NoHandle EXCEPT !.st = "open", !.dev = d,
                                   !.usb_devh = "open"]
      IN {IF g.ret # UVC_SUCCESS THEN OpenFail(g.W, d, devh, g.ret)
          ELSE LET c == uvc_claim_ifs(in)
                   devh1 == [devh EXCEPT !.info = g.info,
                                         !.claimed = c.claimed]
               IN IF c.ret # UVC_SUCCESS THEN OpenFail(g.W, d, devh1, c.ret)
                  ELSE OpenStatus(g.W, d, h,
                           [devh1 EXCEPT !.is_isight =
                               (Bus(W, usb_dev).idVendor = 1452
                                /\ Bus(W, usb_dev).idProduct = 34049)],
                           in)
          : g \in uvc_get_device_info(W1, usb_dev, in)}

(***************************************************************************)
(* uvc_process_status_xfer: the calls it may make through devh->status_cb  *)
(* for a packet (its bytes; actual_length is their number), NoCall when    *)
(* it returns without calling.                                             *)
(***************************************************************************)
UVC_STATUS_CLASS_CONTROL_CAMERA == "UVC_STATUS_CLASS_CONTROL_CAMERA"
UVC_STATUS_CLASS_CONTROL_PROCESSING == "UVC_STATUS_CLASS_CONTROL_PROCESSING"
UVC_STATUS_ATTRIBUTE_UNKNOWN == 255

NoCall == [called |-> FALSE]

StatusCall(status_class, event, selector, attribute, data, data_len) ==
    [called |-> TRUE, status_class |-> status_class, event |-> event,
     selector |-> selector, attribute |-> attribute, data |-> data,
     data_len |-> data_len]

\* The value of the local status_class when no case assigned it
UninitStatusClass ==
    {UVC_STATUS_CLASS_CONTROL_CAMERA, UVC_STATUS_CLASS_CONTROL_PROCESSING,
     INDETERMINATE}

\* The terminal scan giving way to a processing unit of the same id
HasTerminal_unless_unit(info, originator) ==
    /\ \E k \in 1..Len(info.ctrl_if.input_term_descs) :
          info.ctrl_if.input_term_descs[k].bTerminalID = originator
    /\ ~\E k \in 1..Len(info.ctrl_if.processing_unit_descs) :
          info.ctrl_if.processing_unit_descs[k].bUnitID = originator

HasTerminal(info, originator) ==
    \E k \in 1..Len(info.ctrl_if.input_term_descs) :
        info.ctrl_if.input_term_descs[k].bTerminalID = originator

\* The unit scan without the test of found_entity after it
HasUnit_always(info, originator) == TRUE

HasUnit(info, originator) ==
    \E k \in 1..Len(info.ctrl_if.processing_unit_descs) :
        info.ctrl_if.processing_unit_descs[k].bUnitID = originator

uvc_process_status_xfer(info, buffer) ==
    LET actual_length == Len(buffer)
        originator == Byte(buffer, 1)
        event == Byte(buffer, 2)
        selector == Byte(buffer, 3)
    IN IF actual_length < 4 THEN {NoCall}
       ELSE CASE Byte(buffer, 0) % 16 = 1 ->
                   IF actual_length < 5 THEN {NoCall}
                   ELSE IF originator = 0 THEN {NoCall}
                   ELSE IF event # 0 THEN {NoCall}
                   ELSE IF HasTerminal(info, originator)
                   THEN {StatusCall(UVC_STATUS_CLASS_CONTROL_CAMERA, event,
                                    selector, Byte(buffer, 4),
                                    Drop(buffer, 5), actual_length - 5)}
                   ELSE IF HasUnit(info, originator)
                   THEN {StatusCall(UVC_STATUS_CLASS_CONTROL_PROCESSING, event,
                                    selector, Byte(buffer, 4),
                                    Drop(buffer, 5), actual_length - 5)}
                   ELSE {NoCall}
              [] Byte(buffer, 0) % 16 = 2 -> {NoCall}
              [] OTHER ->
                   {StatusCall(c, 0, 0, UVC_STATUS_ATTRIBUTE_UNKNOWN, <<>>, 0)
                    : c \in UninitStatusClass}

(***************************************************************************)
(* The controlling context: one API call at a time.                        *)
(***************************************************************************)
Idle == [op |-> "idle", h |-> 0, pc |-> "none"]

NoSnap == [clean |-> FALSE, h |-> 0, d |-> 0, open_devices |-> <<>>,
           ref |-> 0, usb_ref |-> 0]

CanCall == ctl = Idle /\ ~crashed

Done(op, ret) == lastOp' = [op |-> op, ret |-> ret]

Cams == {u \in UsbDevs : GotInterface(Bus(World, u).config)}
NumCams == Cardinality(Cams)

\* The references the caller holds: its lists' entries and its own
RECURSIVE SumOver(_, _)
SumOver(f, S) ==
    IF S = {} THEN 0
    ELSE LET x == CHOOSE y \in S : TRUE IN f[x] + SumOver(f, S \ {x})

Held ==
    SumOver(userRefs, DevIds)
    + SumOver([i \in 1..Len(lists) |-> Len(lists[i])], 1..Len(lists))

EventUnchanged == UNCHANGED <<bus, wire, calls, crashed, uaf>>

\* The same for a call that can kill the process
EventUntouched == UNCHANGED <<bus, wire, calls, uaf>>

NoFail == [cfgFail |-> {}, descFail |-> {}, openFail |-> {}, enumOk |-> TRUE]

Envs ==
    {NoFail, [NoFail EXCEPT !.enumOk = FALSE]}
    \cup {[NoFail EXCEPT !.cfgFail = {u}] : u \in Cams}
    \cup {[NoFail EXCEPT !.descFail = {u}] : u \in Cams}
    \cup {[NoFail EXCEPT !.openFail = {u}] : u \in Cams}

GetDeviceList(cfgFail, enumOk) ==
    /\ CanCall
    /\ Len(lists) < MaxRefs
    /\ Held + NumCams <= MaxRefs
    /\ Cardinality(FreeSlots(World)) >= NumCams
    /\ \E r \in uvc_get_device_list(World, cfgFail, enumOk) :
          /\ Install(r.W)
          /\ lists' = IF r.ret = UVC_SUCCESS THEN Append(lists, r.list)
                      ELSE lists
          /\ crashed' = (r.ret = SIGSEGV)
          /\ Done("get_device_list", r.ret)
    /\ preOpen' = NoSnap
    /\ EventUntouched
    /\ UNCHANGED <<bus, userRefs, ctl>>

FreeDeviceList(i, unref_devices) ==
    /\ CanCall
    /\ i \in 1..Len(lists)
    /\ Install(uvc_free_device_list(World, lists[i], unref_devices))
    /\ lists' = [k \in 1..(Len(lists) - 1) |->
                    IF k < i THEN lists[k] ELSE lists[k + 1]]
    \* without unref_devices the list's references become the caller's
    /\ userRefs' = [d \in DevIds |->
                      IF unref_devices = 0
                         /\ \E k \in 1..Len(lists[i]) : lists[i][k] = d
                      THEN userRefs[d] + 1 ELSE userRefs[d]]
    /\ Done("other", UVC_SUCCESS)
    /\ preOpen' = NoSnap
    /\ EventUnchanged
    /\ UNCHANGED <<bus, ctl>>

FindQueries == {<<0, 0, NULL>>, <<1133, 1, NULL>>, <<0, 0, "AAA">>}

FindDevice(q, env) ==
    /\ CanCall
    /\ Held < MaxRefs
    /\ Cardinality(FreeSlots(World)) >= NumCams
    /\ \E r \in uvc_find_device(World, q[1], q[2], q[3], env) :
          /\ Install(r.W)
          /\ userRefs' = IF r.ret = UVC_SUCCESS
                         THEN [userRefs EXCEPT ![r.dev] = @ + 1]
                         ELSE userRefs
          /\ crashed' = (r.ret = SIGSEGV)
          /\ Done("find_device", r.ret)
    /\ preOpen' = NoSnap
    /\ EventUntouched
    /\ UNCHANGED <<bus, lists, ctl>>

RefDevice(d) ==
    /\ CanCall
    /\ devs[d].st = "live"
    /\ Held < MaxRefs
    /\ Install(uvc_ref_device(World, d))
    /\ userRefs' = [userRefs EXCEPT ![d] = @ + 1]
    /\ Done("other", UVC_SUCCESS)
    /\ preOpen' = NoSnap
    /\ EventUnchanged
    /\ UNCHANGED <<bus, lists, ctl>>

UnrefDevice(d) ==
    /\ CanCall
    /\ devs[d].st = "live"
    /\ userRefs[d] > 0
    /\ Install(uvc_unref_device(World, d))
    /\ userRefs' = [userRefs EXCEPT ![d] = @ - 1]
    /\ Done("other", UVC_SUCCESS)
    /\ preOpen' = NoSnap
    /\ EventUnchanged
    /\ UNCHANGED <<bus, lists, ctl>>

(***************************************************************************)
(* uvc_open.                                                               *)
(***************************************************************************)
AllOk ==
    [usb_open |-> UVC_SUCCESS, info_alloc |-> TRUE, cfg_ok |-> TRUE,
     kactive0 |-> FALSE, detach0 |-> UVC_SUCCESS, claim0 |-> UVC_SUCCESS,
     kactive1 |-> FALSE, detach1 |-> UVC_SUCCESS, claim1 |-> UVC_SUCCESS,
     xfer_alloc |-> TRUE, submit |-> UVC_SUCCESS]

\* What can happen during one uvc_open: every call answers well, with and
\* without kernel drivers to detach, or one call fails.
OpenInputs ==
    {AllOk,
     [AllOk EXCEPT !.kactive0 = TRUE, !.kactive1 = TRUE],
     [AllOk EXCEPT !.usb_open = UVC_ERROR_ACCESS],
     [AllOk EXCEPT !.info_alloc = FALSE],
     [AllOk EXCEPT !.cfg_ok = FALSE],
     [AllOk EXCEPT !.kactive0 = TRUE, !.detach0 = UVC_ERROR_BUSY],
     [AllOk EXCEPT !.claim0 = UVC_ERROR_BUSY],
     [AllOk EXCEPT !.claim0 = UVC_ERROR_BUSY, !.kactive1 = TRUE],
     [AllOk EXCEPT !.kactive1 = TRUE, !.detach1 = UVC_ERROR_ACCESS],
     [AllOk EXCEPT !.claim1 = UVC_ERROR_ACCESS],
     [AllOk EXCEPT !.xfer_alloc = FALSE],
     [AllOk EXCEPT !.submit = UVC_ERROR_IO]}

UnusedHandles == {h \in HandleIds : handles[h].st = "unused"}

Open(d, in) ==
    /\ CanCall
    /\ devs[d].st = "live"
    /\ UnusedHandles # {}
    /\ LET h == CHOOSE x \in UnusedHandles : \A y \in UnusedHandles : x <= y
       IN \E r \in uvc_open(World, d, h, in) :
            /\ Install(r.W)
            /\ Done("open", r.ret)
            /\ crashed' = (r.ret \in {SIGSEGV, UB_OOB, HANG})
            /\ preOpen' = IF r.ret = UVC_SUCCESS
                          THEN [clean |-> TRUE, h |-> h, d |-> d,
                                open_devices |-> open_devices,
                                ref |-> devs[d].ref,
                                usb_ref |-> usb_ref[devs[d].usb_dev]]
                          ELSE NoSnap
    /\ UNCHANGED <<bus, lists, userRefs, ctl, wire, calls, uaf>>

(***************************************************************************)
(* uvc_set_status_callback, and the streaming subsystem setting and        *)
(* clearing devh->streaming.                                               *)
(***************************************************************************)
Callbacks == {"cb"}

SetStatusCallback(h, cb) ==
    /\ CanCall
    /\ handles[h].st = "open"
    /\ handles' = [handles EXCEPT ![h].status_cb = cb]
    /\ Done("other", UVC_SUCCESS)
    /\ EventUnchanged
    /\ UNCHANGED <<bus, devs, usb_ref, via, live, lists, userRefs, open_devices,
                   ctl, xfer, closeLog, preOpen>>

StartStreaming(h) ==
    /\ CanCall
    /\ handles[h].st = "open"
    /\ ~handles[h].streaming
    /\ handles' = [handles EXCEPT ![h].streaming = TRUE]
    /\ Done("other", UVC_SUCCESS)
    /\ EventUnchanged
    /\ UNCHANGED <<bus, devs, usb_ref, via, live, lists, userRefs, open_devices,
                   ctl, xfer, closeLog, preOpen>>

uvc_stop_streaming(devh) == [devh EXCEPT !.streaming = FALSE]

(***************************************************************************)
(* uvc_close.  Its statements are named by the position pc; the event      *)
(* context can run between any two of them.                                *)
(***************************************************************************)
\* uvc_close taking the handle off the registry before closing the USB handle
CloseNextPc_remove_first(pc) ==
    CASE pc = "stop" -> "release"
      [] pc = "release" -> "remove"
      [] pc = "remove" -> "usbclose"
      [] pc = "usbclose" -> "unref"
      [] pc = "unref" -> "free"
      [] pc = "free" -> "done"

CloseNextPc(pc) ==
    CASE pc = "stop" -> "release"
      [] pc = "release" -> "usbclose"
      [] pc = "usbclose" -> "remove"
      [] pc = "remove" -> "unref"
      [] pc = "unref" -> "free"
      [] pc = "free" -> "done"

Logged(W, h, pc) == [W EXCEPT !.closeLog[h] = Append(@, pc)]

\* The statement of uvc_close at pc, on the handle h
uvc_close_step(W, h, pc) ==
    CASE pc = "stop" ->
           IF W.handles[h].streaming
           THEN Logged([W EXCEPT !.handles[h] = uvc_stop_streaming(@)], h, pc)
           ELSE W
      [] pc = "release" ->
           Logged([W EXCEPT !.handles[h] = uvc_release_ifs(@)], h, pc)
      [] pc = "usbclose" ->
           Logged(Free([W EXCEPT !.handles[h].usb_devh = "closed"], "usbh"),
                  h, pc)
      [] pc = "remove" ->
           Logged([W EXCEPT !.open_devices = SelectSeq(@, LAMBDA x : x # h)],
                  h, pc)
      [] pc = "unref" ->
           Logged(uvc_unref_device(W, W.handles[h].dev), h, pc)
      [] pc = "free" ->
           Logged([uvc_free_devh(W, W.handles[h])
                      EXCEPT !.handles[h].st = "freed"], h, pc)

\* uvc_close from the statement at pc to its end
RECURSIVE uvc_close_from(_, _, _)
uvc_close_from(W, h, pc) ==
    IF pc = "done" THEN W
    ELSE uvc_close_from(uvc_close_step(W, h, pc), h, CloseNextPc(pc))

\* uvc_close without its uvc_unref_device
uvc_close_no_unref(W, h) ==
    LET W1 == uvc_close_step(W, h, "stop")
        W2 == uvc_close_step(W1, h, "release")
        W3 == uvc_close_step(W2, h, "usbclose")
        W4 == uvc_close_step(W3, h, "remove")
    IN uvc_close_step(W4, h, "free")

uvc_close(W, h) == uvc_close_from(W, h, "stop")

\* uvc_close with nothing running beside it
Close(h) ==
    /\ CanCall
    /\ handles[h].st = "open"
    /\ Install(uvc_close(World, h))
    /\ Done("other", UVC_SUCCESS)
    /\ preOpen' = IF preOpen.h = h THEN preOpen ELSE NoSnap
    /\ EventUnchanged
    /\ UNCHANGED <<bus, lists, userRefs, ctl>>

\* uvc_close one statement at a time
Closing(pc) == ctl.op = "close" /\ ctl.pc = pc /\ ~crashed

CloseStep(h, pc) ==
    /\ Install(uvc_close_step(World, h, pc))
    /\ ctl' = IF CloseNextPc(pc) = "done" THEN Idle
              ELSE [op |-> "close", h |-> h, pc |-> CloseNextPc(pc)]
    /\ Done("other", UVC_SUCCESS)
    /\ EventUnchanged
    /\ UNCHANGED <<bus, lists, userRefs>>

\* if (devh->streaming) uvc_stop_streaming(devh);
CloseStopStreaming(h) ==
    /\ CanCall
    /\ handles[h].st = "open"
    /\ CloseStep(h, "stop")
    /\ preOpen' = IF preOpen.h = h THEN preOpen ELSE NoSnap

\* uvc_release_ifs(devh);
CloseReleaseIfs ==
    Closing("release") /\ CloseStep(ctl.h, "release") /\ UNCHANGED preOpen

\* libusb_close(devh->usb_devh);
CloseUsbClose ==
    Closing("usbclose") /\ CloseStep(ctl.h, "usbclose") /\ UNCHANGED preOpen

\* DL_DELETE(devh->dev->ctx->open_devices, devh);
CloseRemove ==
    Closing("remove") /\ CloseStep(ctl.h, "remove") /\ UNCHANGED preOpen

\* uvc_unref_device(devh->dev);
CloseUnref ==
    Closing("unref") /\ CloseStep(ctl.h, "unref") /\ UNCHANGED preOpen

\* uvc_free_devh(devh);
CloseFree ==
    Closing("free") /\ CloseStep(ctl.h, "free") /\ UNCHANGED preOpen

(***************************************************************************)
(* The USB event context: a status transfer completes and libusb runs      *)
(* _uvc_status_callback, statement by statement.                           *)
(***************************************************************************)
LIBUSB_TRANSFER_COMPLETED == "LIBUSB_TRANSFER_COMPLETED"
LIBUSB_TRANSFER_ERROR == "LIBUSB_TRANSFER_ERROR"
LIBUSB_TRANSFER_CANCELLED == "LIBUSB_TRANSFER_CANCELLED"
LIBUSB_TRANSFER_STALL == "LIBUSB_TRANSFER_STALL"
LIBUSB_TRANSFER_NO_DEVICE == "LIBUSB_TRANSFER_NO_DEVICE"

\* The statuses on which the callback returns at once
StopStatuses ==
    {LIBUSB_TRANSFER_ERROR, LIBUSB_TRANSFER_CANCELLED,
     LIBUSB_TRANSFER_NO_DEVICE}

\* What a transfer in flight can complete with: anything but a cancellation
\* while the USB handle is open, CANCELLED or NO_DEVICE once it is closed.
PossibleStatuses(devh) ==
    IF devh.usb_devh = "open"
    THEN {LIBUSB_TRANSFER_COMPLETED, LIBUSB_TRANSFER_ERROR,
          LIBUSB_TRANSFER_STALL, LIBUSB_TRANSFER_NO_DEVICE}
    ELSE {LIBUSB_TRANSFER_CANCELLED, LIBUSB_TRANSFER_NO_DEVICE}

\* The handle and its transfer were freed: touching them is a use after
\* free, which either kills the process or finds the old contents.
Touch(h, dies) ==
    IF handles[h].st = "freed"
    THEN uaf' = TRUE /\ crashed' \in {dies, TRUE}
    ELSE uaf' = uaf /\ crashed' = dies

\* The switch without its case LIBUSB_TRANSFER_ERROR
StatusSwitch_no_error_case(status) ==
    IF status \in {LIBUSB_TRANSFER_CANCELLED, LIBUSB_TRANSFER_NO_DEVICE}
    THEN "returned"
    ELSE IF status = LIBUSB_TRANSFER_COMPLETED THEN "process"
    ELSE "submit"

\* The switch without its case LIBUSB_TRANSFER_COMPLETED
StatusSwitch_no_completed_case(status) ==
    IF status \in StopStatuses THEN "returned" ELSE "submit"

\* The switch on transfer->status
StatusSwitch(status) ==
    IF status \in StopStatuses THEN "returned"
    ELSE IF status = LIBUSB_TRANSFER_COMPLETED THEN "process"
    ELSE "submit"

XferComplete(h, status, pkt) ==
    /\ ~crashed
    /\ xfer[h].st = "inflight"
    /\ status \in PossibleStatuses(handles[h])
    /\ status = LIBUSB_TRANSFER_COMPLETED => Len(wire[h]) < MaxPkts
    /\ LET buffer == IF status = LIBUSB_TRANSFER_COMPLETED THEN pkt ELSE <<>>
           pc == StatusSwitch(status)
       IN /\ xfer' = [xfer EXCEPT ![h] =
                        [st |-> IF pc = "returned" THEN "dead" ELSE "callback",
                         pc |-> pc, status |-> status, pkt |-> buffer,
                         processed |-> FALSE, submits |-> 0]]
          /\ wire' = IF status = LIBUSB_TRANSFER_COMPLETED
                     THEN [wire EXCEPT ![h] = Append(@, buffer)]
                     ELSE wire
    /\ Touch(h, FALSE)
    /\ UNCHANGED <<bus, devs, usb_ref, via, live, lists, userRefs, handles,
                   open_devices, ctl, calls, closeLog, lastOp, preOpen>>

\* uvc_process_status_xfer(devh, transfer);
CbProcess(h) ==
    /\ ~crashed
    /\ xfer[h].pc = "process"
    /\ \E o \in uvc_process_status_xfer(Deref(handles[h].info), xfer[h].pkt) :
         LET nullCall == o.called /\ handles[h].status_cb = NULL
         IN /\ calls' = IF o.called
                        THEN [calls EXCEPT ![h] =
                                Append(@, [cb |-> handles[h].status_cb,
                                           args |-> o])]
                        ELSE calls
            /\ xfer' = IF nullCall THEN [xfer EXCEPT ![h].pc = "call"]
                       ELSE [xfer EXCEPT ![h].pc = "submit",
                                         ![h].processed = TRUE]
            /\ Touch(h, nullCall)
    /\ UNCHANGED <<bus, devs, usb_ref, via, live, lists, userRefs, handles,
                   open_devices, ctl, wire, closeLog, lastOp, preOpen>>

\* libusb_submit_transfer(transfer); its result is not looked at
CbSubmit(h, ok) ==
    /\ ~crashed
    /\ xfer[h].pc = "submit"
    /\ xfer' = [xfer EXCEPT
                  ![h].pc = "returned",
                  ![h].submits = @ + 1,
                  ![h].st = IF ok /\ handles[h].usb_devh = "open"
                               /\ handles[h].st = "open"
                            THEN "inflight" ELSE "dead"]
    /\ Touch(h, FALSE)
    /\ UNCHANGED <<bus, devs, usb_ref, via, live, lists, userRefs, handles,
                   open_devices, ctl, wire, calls, closeLog, lastOp, preOpen>>

(***************************************************************************)
(* Status packets.                                                         *)
(***************************************************************************)
\* One completion of every shape of packet: class tags 1, 2, 0 and 0x11,
\* originators none, 1 (a terminal), 2 (a terminal and a unit), 3 (a unit)
\* and 9 (nothing), events 0 and 1, from 0 to 3 bytes after the selector.
StatusPackets ==
    {<<tag, originator, event, 5>> \o rest :
        tag \in {1, 2, 0, 17}, originator \in {0, 1, 2, 3, 9},
        event \in {0, 1},
        rest \in {<<>>, <<170>>, <<170, 221>>, <<170, 221, 238>>}}
    \cup {<<1, 1, 0>>, <<>>}

\* [class tag, originator, event, selector, attribute, data...]
Packets ==
    {<<1, 1, 0, 5, 170, 221, 238>>,     \* camera terminal 1
     <<1, 3, 0, 6, 171>>,               \* processing unit 3
     <<1, 9, 0, 5, 170>>,               \* no such entity
     <<1, 0, 0>>}                       \* short

(***************************************************************************)
(* The system.                                                             *)
(***************************************************************************)
LiveKinds == {"dev", "list", "usbh", "devh", "info", "config", "xfer"}

BusChoices == {<<"CamA", "Hub">>, <<"Hub", "CamB">>}

\* The library after uvc_init on the bus b: nothing allocated
EmptyWorld(b) ==
    [bus |-> b,
     devs |-> [d \in DevIds |-> NoDev],
     usb_ref |-> [u \in 1..Len(b) |-> 0],
     via |-> [d \in DevIds |-> 0],
     live |-> [k \in LiveKinds |-> 0],
     handles |-> [h \in HandleIds |-> NoHandle],
     open_devices |-> <<>>,
     xfer |-> [h \in HandleIds |-> NoXfer],
     closeLog |-> [h \in HandleIds |-> <<>>]]

Start(W) ==
    /\ bus = W.bus
    /\ devs = W.devs
    /\ usb_ref = W.usb_ref
    /\ via = W.via
    /\ live = W.live
    /\ handles = W.handles
    /\ open_devices = W.open_devices
    /\ xfer = W.xfer
    /\ closeLog = W.closeLog
    /\ lists = <<>>
    /\ userRefs = [d \in DevIds |-> 0]
    /\ ctl = Idle
    /\ wire = [h \in HandleIds |-> <<>>]
    /\ calls = [h \in HandleIds |-> <<>>]
    /\ lastOp = [op |-> "other", ret |-> UVC_SUCCESS]
    /\ crashed = FALSE
    /\ uaf = FALSE
    /\ preOpen = NoSnap

Init == Start(EmptyWorld(<<"CamA", "Hub">>))

InitOpen == \E b \in BusChoices : Start(EmptyWorld(b))

\* Opens that succeed, fail first thing and fail last thing
RegistryOpenInputs ==
    {AllOk,
     [AllOk EXCEPT !.usb_open = UVC_ERROR_ACCESS],
     [AllOk EXCEPT !.claim1 = UVC_ERROR_ACCESS],
     [AllOk EXCEPT !.submit = UVC_ERROR_IO]}

NextRegistry ==
    \/ \E cfgFail \in SUBSET Cams, enumOk \in BOOLEAN :
          GetDeviceList(cfgFail, enumOk)
    \/ \E i \in 1..MaxRefs, u \in {0, 1} : FreeDeviceList(i, u)
    \/ \E q \in FindQueries, env \in Envs : FindDevice(q, env)
    \/ \E d \in DevIds : RefDevice(d)
    \/ \E d \in DevIds : UnrefDevice(d)
    \/ \E d \in DevIds, in \in RegistryOpenInputs : Open(d, in)
    \/ \E h \in HandleIds : Close(h)

\* Opening and closing, on devices found and referenced
NextOpen ==
    \/ \E env \in Envs : FindDevice(<<0, 0, NULL>>, env)
    \/ \E d \in DevIds : RefDevice(d)
    \/ \E d \in DevIds : UnrefDevice(d)
    \/ \E d \in DevIds, in \in OpenInputs : Open(d, in)
    \/ \E h \in HandleIds : Close(h)

\* One handle, found and opened once: the controlling context against the
\* USB event context
NextStatus ==
    \/ Held = 0 /\ FindDevice(<<0, 0, NULL>>, NoFail)
    \/ \E d \in DevIds : UnusedHandles = HandleIds /\ Open(d, AllOk)
    \/ \E h \in HandleIds : StartStreaming(h)
    \/ \E h \in HandleIds, cb \in Callbacks : SetStatusCallback(h, cb)
    \/ \E h \in HandleIds : CloseStopStreaming(h)
    \/ CloseReleaseIfs
    \/ CloseUsbClose
    \/ CloseRemove
    \/ CloseUnref
    \/ CloseFree
    \/ \E h \in HandleIds, status \in StopStatuses \cup
            {LIBUSB_TRANSFER_COMPLETED, LIBUSB_TRANSFER_STALL},
          pkt \in Packets : XferComplete(h, status, pkt)
    \/ \E h \in HandleIds : CbProcess(h)
    \/ \E h \in HandleIds, ok \in BOOLEAN : CbSubmit(h, ok)

Spec == Init /\ [][NextRegistry]_vars

\* Listing and finding on buses with no, one and two cameras
ListBuses ==
    {<<>>, <<"CamA", "Hub">>, <<"CamB", "Hub", "CamA">>,
     <<"CtlOnly", "AltCam">>, <<"Hub", "CtlOnly">>}

InitList == \E b \in ListBuses : Start(EmptyWorld(b))

\* vid, pid, sn
ListQueries ==
    FindQueries \cup {<<0, 1, NULL>>, <<1133, 2085, "AAA">>, <<1133, 0, "BBB">>}

NextList ==
    \/ \E cfgFail \in SUBSET Cams, enumOk \in BOOLEAN :
          GetDeviceList(cfgFail, enumOk)
    \/ \E i \in 1..MaxRefs, u \in {0, 1} : FreeDeviceList(i, u)
    \/ \E q \in ListQueries, env \in Envs : FindDevice(q, env)
    \/ \E d \in DevIds : RefDevice(d)
    \/ \E d \in DevIds : UnrefDevice(d)

SpecList == InitList /\ [][NextList]_vars

\* One device given by its descriptor chains, found, opened and closed
InitParse == \E n \in ChainNames : Start(EmptyWorld(<<n>>))

NextParse ==
    \/ Held = 0 /\ FindDevice(<<0, 0, NULL>>, NoFail)
    \/ \E d \in DevIds : UnusedHandles = HandleIds /\ Open(d, AllOk)
    \/ \E h \in HandleIds : Close(h)

SpecParse == InitParse /\ [][NextParse]_vars

SpecOpen == InitOpen /\ [][NextOpen]_vars

SpecStatus == Init /\ [][NextStatus]_vars

\* The status transfer on a camera with a status endpoint and on one without
SpecStatusBuses == InitOpen /\ [][NextStatus]_vars

\* One handle and the first completion of its status transfer, with every
\* shape of packet
NextProcess ==
    \/ Held = 0 /\ FindDevice(<<0, 0, NULL>>, NoFail)
    \/ \E d \in DevIds : UnusedHandles = HandleIds /\ Open(d, AllOk)
    \/ \E h \in HandleIds, cb \in Callbacks : SetStatusCallback(h, cb)
    \/ \E h \in HandleIds, pkt \in StatusPackets :
          wire[h] = <<>> /\ XferComplete(h, LIBUSB_TRANSFER_COMPLETED, pkt)
    \/ \E h \in HandleIds : CbProcess(h)
    \/ \E h \in HandleIds, ok \in BOOLEAN : CbSubmit(h, ok)

SpecProcess == Init /\ [][NextProcess]_vars


(***************************************************************************)
(* Properties of the registry and of the reference counts.                 *)
(***************************************************************************)
\* C1: after a successful uvc_open of a device with ref >= 1 and the
\* uvc_close of the handle it returned, ctx->open_devices is what it was
\* before the open, and the device's ref and the USB library's reference
\* count of its usb_dev have their values from before the open.
C1_CloseUndoesOpen ==
    (preOpen.clean /\ handles[preOpen.h].st = "freed") =>
        /\ preOpen.ref >= 1
        /\ open_devices = preOpen.open_devices
        /\ devs[preOpen.d].st = "live"
        /\ devs[preOpen.d].ref = preOpen.ref
        /\ usb_ref[devs[preOpen.d].usb_dev] = preOpen.usb_ref

\* An open of a device with two references, then the close of its handle
C1_OpenedAndClosed ==
    /\ preOpen.clean
    /\ handles[preOpen.h].st = "freed"
    /\ preOpen.ref = 2
    /\ preOpen.open_devices = <<>>

\* The error of the first step of uvc_open that fails under the answers in
ExpectedOpenError(in) ==
    IF in.usb_open # UVC_SUCCESS THEN in.usb_open
    ELSE IF ~in.info_alloc THEN UVC_ERROR_NO_MEM
    ELSE IF ~in.cfg_ok THEN UVC_ERROR_IO
    ELSE IF in.kactive0 /\ in.detach0 # UVC_SUCCESS THEN in.detach0
    ELSE IF in.claim0 # UVC_SUCCESS THEN in.claim0
    ELSE IF in.kactive1 /\ in.detach1 # UVC_SUCCESS THEN in.detach1
    ELSE IF in.claim1 # UVC_SUCCESS THEN in.claim1
    ELSE IF ~in.xfer_alloc THEN UVC_ERROR_NO_MEM
    ELSE in.submit

\* C2: a uvc_open that fails returns the error of the step that failed and
\* leaves the state as it was before the call: ctx->open_devices, every
\* device's ref and USB reference count, and the number of live objects of
\* every kind (USB handles, handles, DeviceInfos, config descriptors,
\* transfers) are unchanged, so what the call allocated it freed once.
C2_FailedOpenRestores ==
    [][(lastOp'.op = "open" /\ lastOp'.ret # UVC_SUCCESS) =>
          /\ UNCHANGED <<devs, usb_ref, via, live, handles, open_devices,
                         xfer, lists, userRefs, closeLog>>
          /\ \A d \in DevIds, in \in OpenInputs, h \in UnusedHandles :
                devs[d].st = "live" =>
                   \A r \in uvc_open(World, d, h, in) :
                      r.ret # UVC_SUCCESS => r.ret = ExpectedOpenError(in)]_vars

\* A uvc_open has failed at the submission of the status transfer or at the
\* configuration descriptor, with a device list and the device still there
C2_OpenFailed ==
    /\ lastOp = [op |-> "open", ret |-> UVC_ERROR_IO]
    /\ \E d \in DevIds : devs[d].st = "live" /\ devs[d].ref = 2
    /\ open_devices = <<>>

\* The USB references taken through live devices on the USB device u
ViaOn(u) ==
    SumOver([d \in DevIds |-> IF devs[d].st = "live" /\ devs[d].usb_dev = u
                              THEN via[d] ELSE 0], DevIds)

\* C3: each live device's ref equals the number of USB-library references
\* taken on its usb_dev through it and not yet released, no reference stays
\* behind a freed device, and uvc_ref_device followed by uvc_unref_device
\* changes neither count.
C3_RefsInLockstep ==
    /\ \A d \in DevIds :
          /\ devs[d].st = "live" => devs[d].ref = via[d]
          /\ devs[d].st # "live" => via[d] = 0
    /\ \A u \in UsbDevs : usb_ref[u] = ViaOn(u)
    /\ \A d \in DevIds :
          devs[d].st = "live" =>
             LET W2 == uvc_unref_device(uvc_ref_device(World, d), d)
             IN W2.devs = devs /\ W2.usb_ref = usb_ref

\* A device referenced by a list, by the caller and by an open handle
C3_ManyReferences ==
    \E d \in DevIds :
        /\ devs[d].st = "live"
        /\ devs[d].ref >= 3
        /\ open_devices # <<>>
        /\ lists # <<>>

\* C4: a device is freed exactly when its ref reaches 0 (the unfreed devices
\* are those with ref >= 1), and every device in a device list not yet
\* freed or under a handle in ctx->open_devices is unfreed with ref >= 1.
C4_ReferencedDevicesLive ==
    /\ \A d \in DevIds : devs[d].st = "live" <=> devs[d].ref >= 1
    /\ live["dev"] = Cardinality({d \in DevIds : devs[d].st = "live"})
    /\ \A i \in 1..Len(lists) : \A k \in 1..Len(lists[i]) :
          devs[lists[i][k]].st = "live" /\ devs[lists[i][k]].ref >= 1
    /\ \A k \in 1..Len(open_devices) :
          LET d == handles[open_devices[k]].dev
          IN devs[d].st = "live" /\ devs[d].ref >= 1
    /\ \A d \in DevIds : userRefs[d] > 0 => devs[d].st = "live"

\* One device in a list, another under an open handle after the caller gave
\* up its own reference, and no third
C4_ListAndHandle ==
    /\ lists # <<>> /\ Len(lists[1]) = 1
    /\ open_devices # <<>>
    /\ handles[open_devices[1]].dev # lists[1][1]
    /\ userRefs = [d \in DevIds |-> 0]
    /\ devs[handles[open_devices[1]].dev].ref = 1

(***************************************************************************)
(* Properties of uvc_close against the status transfer.                    *)
(***************************************************************************)
Outstanding(h) == xfer[h].st \in {"inflight", "callback"}

\* C5: in every interleaving of uvc_close with the completion of the status
\* transfer, the handle is not freed while its status transfer is
\* outstanding, and _uvc_status_callback never touches a freed handle.
C5_NoFreeWhileOutstanding ==
    /\ \A h \in HandleIds : handles[h].st = "freed" => ~Outstanding(h)
    /\ ~uaf

CloseOrder == <<"stop", "release", "usbclose", "remove", "unref", "free">>

PosIn(seq, x) == CHOOSE i \in 1..Len(seq) : seq[i] = x

InSeq(seq, x) == \E i \in 1..Len(seq) : seq[i] = x

\* C6: uvc_close takes its steps in the order stop streaming (only if
\* devh->streaming is set), release interfaces, close the USB handle, remove
\* the handle from ctx->open_devices, unref the device, free the handle
\* (with its DeviceInfo and status transfer): each step taken is the one
\* after the step taken last, and has had its effect.
C6_CloseOrdered ==
    [][\A h \in HandleIds :
          LET log == closeLog[h]
              log2 == closeLog'[h]
          IN /\ log2 # log =>
                  \E pc \in {CloseOrder[i] : i \in 1..Len(CloseOrder)} :
                     /\ log2 = Append(log, pc)
                     /\ IF log = <<>>
                        THEN pc = (IF handles[h].streaming THEN "stop"
                                   ELSE "release")
                        ELSE PosIn(CloseOrder, pc)
                               = PosIn(CloseOrder, log[Len(log)]) + 1
             /\ log2 # <<>> => ~handles'[h].streaming
             /\ InSeq(log2, "release") => handles'[h].claimed = {}
             /\ InSeq(log2, "usbclose") <=> handles'[h].usb_devh = "closed"
             /\ handles'[h].st # "unused" =>
                  (InSeq(log2, "remove") <=> ~InSeq(open_devices', h))
             /\ InSeq(log2, "free") <=> handles'[h].st = "freed"
             /\ InSeq(log2, "free") =>
                  live'["devh"] = 0 /\ live'["info"] = 0 /\ live'["xfer"] = 0]_vars

\* A streaming handle closed to the end
C6_ClosedWhileStreaming == \E h \in HandleIds : closeLog[h] = CloseOrder

(***************************************************************************)
(* Properties of the status callback.                                      *)
(***************************************************************************)
\* C7: when the status transfer completes with ERROR, CANCELLED or
\* NO_DEVICE it is not resubmitted and no callback is invoked for the
\* handle from then on; when it completes with COMPLETED the packet is
\* processed before the resubmission, and the callback returns having
\* resubmitted once.
C7_StatusCallbackFlow ==
    [][\A h \in HandleIds :
          LET x == xfer'[h]
          IN /\ x.status \in StopStatuses =>
                  /\ x.st = "dead" /\ x.pc = "returned"
                  /\ x.submits = 0 /\ ~x.processed
             /\ x.status = LIBUSB_TRANSFER_COMPLETED =>
                  /\ x.pc = "process" => ~x.processed /\ x.submits = 0
                  /\ x.pc = "submit" => x.processed /\ x.submits = 0
                  /\ x.pc = "returned" => x.processed /\ x.submits = 1
             /\ x.submits <= 1
             /\ xfer[h].status \in StopStatuses =>
                  x = xfer[h] /\ calls'[h] = calls[h]]_vars

\* A packet was delivered and its transfer resubmitted, and a later
\* completion with an error ended the transfer
C7_StoppedAfterDelivery ==
    \E h \in HandleIds :
        /\ xfer[h].status = LIBUSB_TRANSFER_ERROR
        /\ Len(wire[h]) = 1
        /\ Len(calls[h]) = 1

TerminalIds(info) ==
    {info.ctrl_if.input_term_descs[k].bTerminalID :
        k \in 1..Len(info.ctrl_if.input_term_descs)}

UnitIds(info) ==
    {info.ctrl_if.processing_unit_descs[k].bUnitID :
        k \in 1..Len(info.ctrl_if.processing_unit_descs)}

\* The packets C8 names: shorter than 4 bytes, or of class 1 and shorter
\* than 5, from originator 0, with an event other than 0, or from an
\* originator that is no retained terminal or unit
Dropped(info, pkt) ==
    \/ Len(pkt) < 4
    \/ /\ pkt[1] % 16 = 1
       /\ \/ Len(pkt) < 5
          \/ pkt[2] = 0
          \/ pkt[3] # 0
          \/ pkt[2] \notin TerminalIds(info) \cup UnitIds(info)

\* C8: uvc_process_status_xfer makes no call through the callback for a
\* packet shorter than 4 bytes, nor for a class-1 packet that is shorter
\* than 5 bytes, has originator 0, has an event other than 0, or whose
\* originator is no retained input terminal or processing unit.
C8_DroppedPacketsSilent ==
    [][\A h \in HandleIds :
          (xfer[h].pc = "process"
           /\ Dropped(Deref(handles[h].info), xfer[h].pkt)) =>
              /\ calls'[h] = calls[h]
              /\ crashed' = crashed]_vars

\* A packet from an originator that is no entity of the device was processed
C8_UnknownOriginatorProcessed ==
    \E h \in HandleIds :
        /\ xfer[h].processed
        /\ xfer[h].pkt = <<1, 9, 0, 5, 170, 221>>
        /\ calls[h] = <<>>

\* C9: for a class-1 packet of at least 5 bytes with event 0 and an
\* originator k # 0 that is a retained terminal or processing unit, the
\* callback is called once, with class CAMERA when a terminal has id k
\* (also when a unit has it too) and PROCESSING otherwise, event = byte 2,
\* selector = byte 3, attribute = byte 4, data = the bytes from 5 on and
\* data_len = actual_length - 5.
C9_CallArguments ==
    [][\A h \in HandleIds :
          LET pkt == xfer[h].pkt
              info == Deref(handles[h].info)
          IN (/\ xfer[h].pc = "process" /\ xfer'[h].pc # "process"
              /\ Len(pkt) >= 5 /\ pkt[1] % 16 = 1 /\ pkt[3] = 0 /\ pkt[2] # 0
              /\ pkt[2] \in TerminalIds(info) \cup UnitIds(info)) =>
                 calls'[h] = Append(calls[h],
                    [cb |-> handles[h].status_cb,
                     args |-> StatusCall(
                        IF pkt[2] \in TerminalIds(info)
                        THEN UVC_STATUS_CLASS_CONTROL_CAMERA
                        ELSE UVC_STATUS_CLASS_CONTROL_PROCESSING,
                        pkt[3], pkt[4], pkt[5],
                        SubSeq(pkt, 6, Len(pkt)), Len(pkt) - 5)])]_vars

\* The callback was called for a packet from id 2, a terminal and a unit
C9_SharedIdDelivered ==
    \E h \in HandleIds :
        /\ wire[h] = <<(<<17, 2, 0, 5, 170, 221, 238>>)>>
        /\ calls[h] =
             <<[cb |-> "cb",
                args |-> StatusCall(UVC_STATUS_CLASS_CONTROL_CAMERA, 0, 5, 170,
                                    <<221, 238>>, 2)]>>

\* The calls uvc_process_status_xfer makes for the packets pkts, in order
RECURSIVE Delivered(_, _)
Delivered(info, pkts) ==
    IF pkts = <<>> THEN <<>>
    ELSE LET o == uvc_process_status_xfer(info, Head(pkts))
         IN (IF o = {NoCall} THEN <<>> ELSE <<CHOOSE c \in o : TRUE>>)
            \o Delivered(info, Tail(pkts))

\* C10: for one handle the callback's calls are, in order, one call for
\* each surfaced packet that completed on the endpoint, the packet whose
\* processing has not finished left aside: none reordered, repeated or
\* merged.
C10_CallbacksInWireOrder ==
    \A h \in HandleIds :
        handles[h].st # "unused" =>
           LET done == IF xfer[h].pc = "process"
                       THEN SubSeq(wire[h], 1, Len(wire[h]) - 1)
                       ELSE wire[h]
           IN [i \in 1..Len(calls[h]) |-> calls[h][i].args]
                 = Delivered(Deref(handles[h].info), done)

\* Two different packets were delivered around one that was dropped
C10_TwoDeliveredAroundDropped ==
    \E h \in HandleIds :
        /\ Len(wire[h]) = 3
        /\ Len(calls[h]) = 2
        /\ calls[h][1].args # calls[h][2].args
        /\ Dropped(Deref(handles[h].info), wire[h][2])
        /\ xfer[h].pc = "returned"


(***************************************************************************)
(* Properties of uvc_get_device_list and uvc_find_device.                  *)
(***************************************************************************)
\* C12: uvc_get_device_list returns UVC_ERROR_IO, and leaves devices, lists
\* and reference counts as they were, when the adapter's enumeration fails;
\* in every other case, whatever configuration descriptors cannot be
\* fetched, it returns UVC_SUCCESS.
C12_EnumerationFailureIsIO ==
    [][\A cfgFail \in SUBSET UsbDevs, enumOk \in BOOLEAN :
          GetDeviceList(cfgFail, enumOk) =>
             IF enumOk THEN lastOp'.ret = UVC_SUCCESS
             ELSE /\ lastOp'.ret = UVC_ERROR_IO
                  /\ UNCHANGED <<devs, usb_ref, live, lists>>]_vars

\* The USB device u has, in configuration 0, an interface with an altsetting
\* of class 14 and subclass 2
HasStreamingAlt(u) ==
    \E i \in 1..Len(Bus(World, u).config.interface) :
        \E a \in 1..Len(Bus(World, u).config.interface[i].altsetting) :
            /\ Bus(World, u).config.interface[i].altsetting[a].bInterfaceClass = 14
            /\ Bus(World, u).config.interface[i].altsetting[a].bInterfaceSubClass = 2

\* The USB devices a listing finds to be cameras: those the adapter
\* enumerated whose configuration 0, as the adapter returned it, has such
\* an interface
Listed(cfgFail, enumOk) ==
    IF enumOk THEN {u \in UsbDevs : u \notin cfgFail /\ HasStreamingAlt(u)}
    ELSE {}

\* C13: a successful uvc_get_device_list returns, in bus order, exactly one
\* device for each enumerated USB device whose configuration 0 has an
\* altsetting of class 14 and subclass 2, each of them newly allocated and
\* with ref = 1, and nothing else; uvc_free_device_list(list, 1) on a list
\* whose devices still have ref = 1 frees every one of them.
C13_ListIsCameras ==
    [][/\ \A cfgFail \in SUBSET UsbDevs, enumOk \in BOOLEAN :
            (GetDeviceList(cfgFail, enumOk) /\ lastOp'.ret = UVC_SUCCESS) =>
               LET l == lists'[Len(lists')]
               IN /\ Len(lists') = Len(lists) + 1
                  /\ Len(l) = Cardinality(Listed(cfgFail, enumOk))
                  /\ \A k \in 1..Len(l) :
                        /\ devs[l[k]].st # "live"
                        /\ devs'[l[k]].st = "live"
                        /\ devs'[l[k]].ref = 1
                        /\ devs'[l[k]].usb_dev \in Listed(cfgFail, enumOk)
                        /\ \A j \in 1..(k - 1) :
                              /\ l[j] # l[k]
                              /\ devs'[l[j]].usb_dev < devs'[l[k]].usb_dev
       /\ \A i \in 1..Len(lists) :
            FreeDeviceList(i, 1) =>
               \A k \in 1..Len(lists[i]) :
                  devs[lists[i][k]].ref = 1 => devs'[lists[i][k]].st = "free"]_vars

\* A list of two cameras, the first and third device of a bus of three,
\* has just been returned
C13_TwoCamerasListed ==
    /\ lastOp = [op |-> "get_device_list", ret |-> UVC_SUCCESS]
    /\ Len(bus) = 3
    /\ Len(lists) = 1
    /\ Len(lists[1]) = 2
    /\ devs[lists[1][1]].usb_dev = 1
    /\ devs[lists[1][2]].usb_dev = 3

\* The enumerated camera u satisfies the criteria q = <<vid, pid, sn>>, by
\* the descriptor and the serial string the adapter gives for it
Satisfies(u, q, env) ==
    /\ u \notin env.descFail
    /\ (q[1] = 0 \/ Bus(World, u).idVendor = q[1])
    /\ (q[2] = 0 \/ Bus(World, u).idProduct = q[2])
    /\ (q[3] = NULL \/ (u \notin env.openFail /\ Bus(World, u).serial = q[3]))

Candidates(q, env) ==
    {u \in Listed(env.cfgFail, env.enumOk) : Satisfies(u, q, env)}

\* C14: a uvc_find_device that returns gives the first listed device that
\* satisfies every criterion which is not 0 or NULL, in a newly allocated
\* device with ref = 1 held by the caller, and leaves no other device of its
\* internal list behind; when no listed device satisfies the criteria it
\* returns UVC_ERROR_NO_DEVICE and leaves no device behind.
C14_FindFirstMatch ==
    [][\A q \in ListQueries, env \in Envs :
          (FindDevice(q, env) /\ ~crashed') =>
             /\ live'["list"] = live["list"]
             /\ IF Candidates(q, env) = {}
                THEN /\ lastOp'.ret = UVC_ERROR_NO_DEVICE
                     /\ UNCHANGED <<devs, usb_ref, userRefs, live>>
                ELSE /\ lastOp'.ret = UVC_SUCCESS
                     /\ live'["dev"] = live["dev"] + 1
                     /\ \E d \in DevIds :
                          /\ devs[d].st # "live"
                          /\ devs'[d].st = "live"
                          /\ devs'[d].ref = 1
                          /\ devs'[d].usb_dev \in Candidates(q, env)
                          /\ \A u \in Candidates(q, env) : devs'[d].usb_dev <= u
                          /\ userRefs' = [userRefs EXCEPT ![d] = @ + 1]
                          /\ \A e \in DevIds \ {d} : devs'[e] = devs[e]]_vars

\* On a bus of two cameras a find has returned the second one: the first
\* did not satisfy the criteria
C14_SecondCameraFound ==
    /\ lastOp = [op |-> "find_device", ret |-> UVC_SUCCESS]
    /\ Len(bus) = 3
    /\ \E d \in DevIds :
          /\ devs[d].st = "live" /\ devs[d].usb_dev = 3 /\ devs[d].ref = 1
          /\ userRefs[d] = 1
          /\ live["dev"] = 1


(***************************************************************************)
(* Properties of uvc_claim_ifs.                                            *)
(***************************************************************************)
\* A USB operation of uvc_claim_ifs fails under the answers in
ClaimOperationFails(in) ==
    \/ in.kactive0 /\ in.detach0 # UVC_SUCCESS
    \/ in.claim0 # UVC_SUCCESS
    \/ in.kactive1 /\ in.detach1 # UVC_SUCCESS
    \/ in.claim1 # UVC_SUCCESS

\* C15: a uvc_open that gets as far as uvc_claim_ifs fails whenever a
\* kernel-driver detach or the claim of interface 0 or of interface 1 fails,
\* whichever kernel drivers are active, and succeeds only with both
\* interfaces claimed.
C15_ClaimFailuresSurface ==
    [][\A d \in DevIds, in \in OpenInputs :
          (/\ Open(d, in)
           /\ in.usb_open = UVC_SUCCESS /\ in.info_alloc /\ in.cfg_ok) =>
             /\ ClaimOperationFails(in) => lastOp'.ret # UVC_SUCCESS
             /\ lastOp'.ret = UVC_SUCCESS =>
                   \A h \in HandleIds :
                      (handles[h].st = "unused" /\ handles'[h].st = "open") =>
                          handles'[h].claimed = {0, 1}]_vars


(***************************************************************************)
(* Properties of the descriptor parsers, on the device bus[1] whose        *)
(* chains of blocks are bus[1][1] (VideoControl) and bus[1][2]             *)
(* (VideoStreaming).                                                       *)
(***************************************************************************)
\* Every block of the chain is at least 3 bytes and its size byte is its size
WellFormedChain(chain) ==
    \A k \in 1..Len(chain) : Len(chain[k]) >= 3 /\ chain[k][1] = Len(chain[k])

IsClassBlock(b, subtype) == Len(b) >= 3 /\ b[2] = 36 /\ b[3] = subtype

IsHeaderBlock(b) == IsClassBlock(b, 1) /\ Len(b) >= 5

SupportedVersions == {256, 266, 272}        \* 0x0100, 0x010A, 0x0110

IsCameraTerminalBlock(b) ==
    IsClassBlock(b, 2) /\ Len(b) >= 15 /\ b[5] + 256 * b[6] = 513

IsOtherTerminalBlock(b) ==
    IsClassBlock(b, 2) /\ Len(b) >= 15 /\ b[5] + 256 * b[6] # 513

\* A block the control walk parses or passes over without an error
PlainBlock(b) ==
    /\ Len(b) >= 3 /\ b[1] = Len(b)
    /\ \/ b[2] # 36
       \/ IsHeaderBlock(b) /\ (b[4] + 256 * b[5]) \in SupportedVersions
       \/ IsCameraTerminalBlock(b)
       \/ b[3] \in {3, 4, 5, 6}

\* A streaming chain that parses: well-formed, each frame after a format
PlainStreaming(vs) ==
    /\ WellFormedChain(vs)
    /\ \A k \in 1..Len(vs) :
          vs[k][3] = 5 => \E j \in 1..(k - 1) : vs[j][3] = 4

\* The walk comes to a VC_HEADER block whose bcdUVC is not supported
ReachesBadHeader(vc) ==
    \E k \in 1..Len(vc) :
        /\ IsHeaderBlock(vc[k])
        /\ vc[k][1] = Len(vc[k])
        /\ (vc[k][4] + 256 * vc[k][5]) \notin SupportedVersions
        /\ \A j \in 1..(k - 1) : PlainBlock(vc[j])

\* C11: every open handle has info.ctrl_if.bcdUVC in {0x0100, 0x010A,
\* 0x0110}, whatever VideoControl chain its device presents, and a uvc_open
\* whose walk comes to a VC_HEADER with another bcdUVC fails with
\* UVC_ERROR_NOT_SUPPORTED.
C11_OpenedVersionSupported ==
    /\ \A h \in HandleIds :
          handles[h].st = "open" =>
             Deref(handles[h].info).ctrl_if.bcdUVC \in SupportedVersions
    /\ (/\ lastOp.op = "open"
        /\ ReachesBadHeader(bus[1][1])
        /\ PlainStreaming(bus[1][2])) =>
          lastOp.ret = UVC_ERROR_NOT_SUPPORTED

\* The ids of the camera terminals among the blocks of a chain, in order
RECURSIVE CameraTerminalIds(_)
CameraTerminalIds(vc) ==
    IF vc = <<>> THEN <<>>
    ELSE (IF IsCameraTerminalBlock(Head(vc)) THEN <<Head(vc)[4]>> ELSE <<>>)
             \o CameraTerminalIds(Tail(vc))

\* C16: an input-terminal block whose wTerminalType is not 0x0201 adds no
\* record and does not stop the walk: a uvc_open of a device whose chain has
\* such blocks among blocks that parse succeeds and retains the camera
\* terminals of the whole chain, in order; every retained input terminal has
\* wTerminalType = 0x0201.
C16_OtherTerminalsSkipped ==
    /\ \A h \in HandleIds :
          handles[h].st = "open" =>
             \A k \in 1..Len(Deref(handles[h].info).ctrl_if.input_term_descs) :
                Deref(handles[h].info).ctrl_if.input_term_descs[k].wTerminalType
                    = 513
    /\ (/\ lastOp.op = "open"
        /\ PlainStreaming(bus[1][2])
        /\ \A k \in 1..Len(bus[1][1]) :
              PlainBlock(bus[1][1][k]) \/ IsOtherTerminalBlock(bus[1][1][k])) =>
          /\ lastOp.ret = UVC_SUCCESS
          /\ \E h \in HandleIds :
                /\ handles[h].st = "open"
                /\ [k \in 1..Len(Deref(handles[h].info).ctrl_if.input_term_descs)
                      |-> Deref(handles[h].info).ctrl_if.input_term_descs[k]
                              .bTerminalID]
                      = CameraTerminalIds(bus[1][1])

\* The n controls bytes of block b from offset start on, in descriptor order
ControlsOf(b, start, n) == [k \in 1..n |-> b[start + k]]

\* sum of c[k] * 256^k modulo 2^64, as the 8 bytes of the result, least
\* significant first
SumBytes(c) == [k \in 1..8 |-> IF k <= Len(c) THEN c[k] ELSE 0]

\* The same sum as a number, when it has at most 3 bytes
SumValue(c) ==
    (IF Len(c) >= 1 THEN c[1] ELSE 0) + (IF Len(c) >= 2 THEN 256 * c[2] ELSE 0)
        + (IF Len(c) >= 3 THEN 65536 * c[3] ELSE 0)

\* The number a uint64_t whose upper 5 bytes are 0 holds
LowValue(w) == w[1] + 256 * w[2] + 65536 * w[3]

\* bmControls is the little-endian reading of the controls bytes c
ControlsParsed(bmControls, c) ==
    /\ bmControls = SumBytes(c)
    /\ Len(c) <= 3 => LowValue(bmControls) = SumValue(c)

\* C17: the bmControls of each retained input terminal, processing unit and
\* extension unit is the sum of c[k] * 256^k modulo 2^64 over its block's
\* controls bytes c[0..n-1], which start at offset 15, 8 and 23 + p and
\* number block[14], block[7] and block[22 + p] (p = block[21]).
C17_ControlsLittleEndian ==
    \A h \in HandleIds :
       (handles[h].st = "open" /\ WellFormedChain(bus[1][1])) =>
          LET ctrl_if == Deref(handles[h].info).ctrl_if
              vc == bus[1][1]
              terms == SelectSeq(vc, IsCameraTerminalBlock)
              units == SelectSeq(vc, LAMBDA b : IsClassBlock(b, 5))
              exts == SelectSeq(vc, LAMBDA b : IsClassBlock(b, 6))
          IN /\ Len(ctrl_if.input_term_descs) = Len(terms)
             /\ Len(ctrl_if.processing_unit_descs) = Len(units)
             /\ Len(ctrl_if.extension_unit_descs) = Len(exts)
             /\ \A k \in 1..Len(terms) :
                   ControlsParsed(ctrl_if.input_term_descs[k].bmControls,
                                  ControlsOf(terms[k], 15, terms[k][15]))
             /\ \A k \in 1..Len(units) :
                   ControlsParsed(ctrl_if.processing_unit_descs[k].bmControls,
                                  ControlsOf(units[k], 8, units[k][8]))
             /\ \A k \in 1..Len(exts) :
                   ControlsParsed(ctrl_if.extension_unit_descs[k].bmControls,
                                  ControlsOf(exts[k], 23 + exts[k][22],
                                             exts[k][23 + exts[k][22]]))

\* An open handle with a terminal of controls bytes [1, 2], read as 0x0201,
\* and one of nine controls bytes, of which the ninth is lost
C17_TwoAndNineBytes ==
    \E h \in HandleIds :
       /\ handles[h].st = "open"
       /\ Len(Deref(handles[h].info).ctrl_if.input_term_descs) = 2
       /\ LowValue(Deref(handles[h].info).ctrl_if.input_term_descs[1].bmControls)
             = 513
       /\ Deref(handles[h].info).ctrl_if.input_term_descs[2].bmControls
             = <<1, 2, 3, 4, 5, 6, 7, 8>>

\* The little-endian u32 at offset i of block b
U32At(b, i) ==
    b[i + 1] + 256 * b[i + 2] + 65536 * b[i + 3] + 16777216 * b[i + 4]

\* The frame descriptors of a streaming interface, format after format
FramesOf(sif) ==
    Flatten([k \in 1..Len(sif.format_descs) |-> sif.format_descs[k].frame_descs])

\* The frame record carries the one interval representation of its block
OneRepresentation(frame, b) ==
    IF b[26] = 0
    THEN /\ frame.intervals = NullPtr
         /\ frame.dwMinFrameInterval = U32At(b, 26)
         /\ frame.dwMaxFrameInterval = U32At(b, 30)
         /\ frame.dwFrameIntervalStep = U32At(b, 34)
    ELSE /\ Len(frame.intervals) = b[26] + 1
         /\ \A i \in 1..b[26] : frame.intervals[i] = U32At(b, 26 + 4 * (i - 1))
         /\ frame.intervals[b[26] + 1] = 0
         /\ frame.dwMinFrameInterval = 0
         /\ frame.dwMaxFrameInterval = 0
         /\ frame.dwFrameIntervalStep = 0

\* C18: every parsed frame descriptor carries exactly one interval
\* representation: with block[25] = 0 the continuous triple read from
\* offsets 26, 30 and 34 and a null intervals table; with block[25] = n > 0
\* a table of the n little-endian u32 values from offset 26, in order, then
\* a single 0, and the continuous triple at 0.
C18_OneIntervalRepresentation ==
    \A h \in HandleIds :
       (handles[h].st = "open" /\ WellFormedChain(bus[1][2])) =>
          \A s \in 1..Len(Deref(handles[h].info).stream_ifs) :
             LET frames == FramesOf(Deref(handles[h].info).stream_ifs[s])
                 blocks == SelectSeq(bus[1][2], LAMBDA b : b[3] = 5)
             IN /\ Len(frames) = Len(blocks)
                /\ \A k \in 1..Len(blocks) : OneRepresentation(frames[k], blocks[k])

\* An open handle with a continuous frame followed by a frame of two
\* discrete intervals
C18_ContinuousAndDiscrete ==
    \E h \in HandleIds :
       /\ handles[h].st = "open"
       /\ Len(Deref(handles[h].info).stream_ifs) = 1
       /\ LET frames == FramesOf(Deref(handles[h].info).stream_ifs[1])
          IN /\ Len(frames) = 2
             /\ frames[1].intervals = NullPtr
             /\ frames[1].dwMinFrameInterval = 333333
             /\ Len(frames[2].intervals) = 3
             /\ frames[2].intervals[2] = 666666


\* The walk as the blocks at the cumulative sums of the size bytes: from
\* offset at, while 3 bytes or more remain of extra, the block there is
\* parsed, a parser error ends the walk with that error, and the next block
\* is the size byte further on.  A walk cut after MaxWalk blocks never ends.
RECURSIVE BlocksInOrderVC(_, _, _, _, _)
BlocksInOrderVC(config, extra, at, info, fuel) ==
    IF Len(extra) - at < 3 THEN {Out(UVC_SUCCESS, info)}
    ELSE IF fuel = 0 THEN {Out(HANG, info)}
    ELSE UNION {IF o.ret # UVC_SUCCESS THEN {o}
                ELSE BlocksInOrderVC(config, extra, at + extra[at + 1], o.val,
                                     fuel - 1)
                : o \in uvc_parse_vc(config, info, Drop(extra, at),
                                     extra[at + 1])}

RECURSIVE BlocksInOrderVS(_, _, _, _)
BlocksInOrderVS(extra, at, sif, fuel) ==
    IF Len(extra) - at < 3 THEN {Out(UVC_SUCCESS, sif)}
    ELSE IF fuel = 0 THEN {Out(HANG, sif)}
    ELSE UNION {IF o.ret # UVC_SUCCESS THEN {o}
                ELSE BlocksInOrderVS(extra, at + extra[at + 1], o.val, fuel - 1)
                : o \in uvc_parse_vs(sif, Drop(extra, at))}

\* C19: the walks of uvc_scan_control and uvc_scan_streaming parse the
\* blocks in order at the cumulative sums of the size bytes, end with
\* UVC_SUCCESS as soon as fewer than 3 bytes remain, and end at the first
\* block whose parser fails, with that error: a uvc_open returns what such a
\* walk of its device's VideoControl bytes gives, and each streaming
\* interface it retains is what such a walk of the VideoStreaming bytes gives.
C19_WalkInOrder ==
    lastOp.op = "open" =>
       LET config == Bus(World, 1).config
           vc == Flatten(bus[1][1])
           vs == Flatten(bus[1][2])
           control == BlocksInOrderVC(config, vc, 0, EmptyInfo, MaxWalk)
           sif0 == [parent |-> "info", bInterfaceNumber |-> 1,
                    bEndpointAddress |-> 0, bTerminalLink |-> 0,
                    format_descs |-> <<>>]
           streaming == BlocksInOrderVS(vs, 0, sif0, MaxWalk)
       IN /\ lastOp.ret \in {o.ret : o \in control}
          /\ \A h \in HandleIds :
                handles[h].st = "open" =>
                   /\ Deref(handles[h].info) \in
                         {o.val : o \in {x \in control : x.ret = UVC_SUCCESS}}
                   /\ \A k \in 1..Len(Deref(handles[h].info).stream_ifs) :
                         Deref(handles[h].info).stream_ifs[k] \in
                            {o.val : o \in {x \in streaming :
                                               x.ret = UVC_SUCCESS}}


\* C20: at most one status transfer is in flight per handle.  A successful
\* uvc_open leaves the handle's transfer in flight exactly when the control
\* interface's bEndpointAddress is not 0; a transfer that is not in flight
\* goes in flight only there or in the libusb_submit_transfer of its own
\* completion callback, which for a COMPLETED transfer comes after the
\* packet was processed; and a transfer in flight is not submitted again.
C20_OneStatusTransfer ==
    [][\A h \in HandleIds :
          LET opened == handles[h].st = "unused" /\ handles'[h].st = "open"
              resubmitted ==
                  /\ xfer[h].st = "callback" /\ xfer[h].pc = "submit"
                  /\ xfer'[h].pc = "returned" /\ xfer'[h].submits = 1
                  /\ xfer[h].status = LIBUSB_TRANSFER_COMPLETED =>
                        xfer[h].processed
          IN /\ opened =>
                  (xfer'[h].st = "inflight" <=>
                     Deref(handles'[h].info).ctrl_if.bEndpointAddress # 0)
             /\ (xfer[h].st # "inflight" /\ xfer'[h].st = "inflight") =>
                  (opened /\ xfer[h].st = "none") \/ resubmitted
             /\ (xfer[h].st = "inflight" /\ xfer'[h].st = "inflight") =>
                  xfer'[h] = xfer[h]
             /\ xfer'[h].st = "inflight" =>
                  xfer'[h].pc \in {"none", "returned"}]_vars

\* The callback of a delivered packet put the transfer in flight again
C20_ResubmittedInFlight ==
    \E h \in HandleIds :
        /\ xfer[h].st = "inflight"
        /\ xfer[h].submits = 1
        /\ xfer[h].processed
        /\ Len(wire[h]) = 1


\* The places of the VS_FORMAT_UNCOMPRESSED blocks in a streaming chain
FormatPositions(vs) ==
    SelectSeq([k \in 1..Len(vs) |-> k], LAMBDA k : vs[k][3] = 4)

\* The VS_FRAME_UNCOMPRESSED blocks between places from and to, in order
FrameBlocksBetween(vs, from, to) ==
    SelectSeq(SubSeq(vs, from + 1, to - 1), LAMBDA b : b[3] = 5)

\* The format record and its frames are those of the format block at
\* pos[k] and of the frame blocks up to the next format block
FormatHoldsItsFrames(sif, vs, pos, k) ==
    LET fmt == sif.format_descs[k]
        to == IF k < Len(pos) THEN pos[k + 1] ELSE Len(vs) + 1
        blocks == FrameBlocksBetween(vs, pos[k], to)
    IN /\ fmt.bFormatIndex = vs[pos[k]][4]
       /\ fmt.parent = sif.bInterfaceNumber
       /\ Len(fmt.frame_descs) = Len(blocks)
       /\ \A i \in 1..Len(blocks) :
             /\ fmt.frame_descs[i].bFrameIndex = blocks[i][4]
             /\ fmt.frame_descs[i].parent = fmt.bFormatIndex

\* C21: within a streaming interface each VS_FRAME_UNCOMPRESSED block is
\* appended to the frames of the format made by the nearest preceding
\* VS_FORMAT_UNCOMPRESSED block of that interface, its parent names that
\* format, and the frames of a format are in block order: no frame is under
\* an earlier format or under a format of another interface.
C21_FramesUnderLastFormat ==
    \A h \in HandleIds :
       (handles[h].st = "open" /\ WellFormedChain(bus[1][2])) =>
          \A s \in 1..Len(Deref(handles[h].info).stream_ifs) :
             LET sif == Deref(handles[h].info).stream_ifs[s]
                 pos == FormatPositions(bus[1][2])
             IN /\ Len(sif.format_descs) = Len(pos)
                /\ \A k \in 1..Len(pos) :
                      FormatHoldsItsFrames(sif, bus[1][2], pos, k)

\* An open handle whose streaming interface has two formats, the first
\* without a frame and the second with the frame that follows both
C21_FrameAfterTwoFormats ==
    \E h \in HandleIds :
       /\ handles[h].st = "open"
       /\ Len(Deref(handles[h].info).stream_ifs) = 1
       /\ LET sif == Deref(handles[h].info).stream_ifs[1]
          IN /\ Len(sif.format_descs) = 2
             /\ sif.format_descs[1].frame_descs = <<>>
             /\ Len(sif.format_descs[2].frame_descs) = 1
             /\ sif.format_descs[2].frame_descs[1].parent = 2


\* C22: the callback is called only for a packet whose class tag (low
\* nibble of byte 0) is 1 and whose originator is a retained terminal or
\* unit; a packet of 4 bytes or more with tag 2 or any other tag makes no
\* call, so no call carries a status class that was never set.
C22_OnlyControlPacketsSurface ==
    [][\A h \in HandleIds :
          calls'[h] # calls[h] =>
             LET pkt == xfer[h].pkt
                 info == Deref(handles[h].info)
                 call == calls'[h][Len(calls'[h])]
             IN /\ Len(pkt) >= 4
                /\ pkt[1] % 16 = 1
                /\ pkt[2] \in TerminalIds(info) \cup UnitIds(info)
                /\ call.args.status_class \in
                      {UVC_STATUS_CLASS_CONTROL_CAMERA,
                       UVC_STATUS_CLASS_CONTROL_PROCESSING}]_vars


\* C23: a status packet that completes on a handle whose status_cb is still
\* null is handled without a call through the null pointer: in every order
\* of uvc_open, packet arrival and uvc_set_status_callback, each call
\* made for a packet goes through a callback that was set.
C23_NoCallThroughNull ==
    \A h \in HandleIds :
       \A k \in 1..Len(calls[h]) : calls[h][k].cb # NULL


\* C24: the descriptor walks of uvc_scan_control and uvc_scan_streaming
\* come to an end for every vector of extra bytes, one holding a block
\* whose size byte is 0 included: no uvc_open stays in a walk for ever.
C24_WalkTerminates ==
    lastOp.op = "open" => lastOp.ret # HANG


\* C25: during the descriptor walk the cursor never moves past the end of
\* the extra bytes and the count of remaining bytes never wraps: at a block
\* whose size byte exceeds the bytes that remain the walk stops, so no
\* uvc_open reads a block at an offset of extra_length or more.
C25_WalkStaysInBounds ==
    lastOp.op = "open" => lastOp.ret # UB_OOB

==========================================================================
